---- MODULE Spec2Model ----
(***************************************************************************)
(* Momentum-strategy services: gap scanner, VWAP band and the pattern      *)
(* detectors (Gap-and-Go, Flat-Top/Flat-Bottom, Bull Flag, First Pullback, *)
(* ABCD).  Every service is a function of the candles it is handed, so the *)
(* state is the input (candles / universe, min_gap), the operation that    *)
(* was invoked (call) and what it produced (out), plus the scanner's loop  *)
(* variables and the VWAP table the VWAP service appends to.               *)
(* The scanner's requests to the market-data API are kept in market, the   *)
(* orchestrator's run() and its CSV report in run, report and today, and   *)
(* the answers the detector endpoints have given in served.                *)
(*                                                                         *)
(* Prices are integers counted in price ticks (a Quotation's units and     *)
(* nano already added up); volumes are integers; a timestamp is an         *)
(* integer instant.  An optional field (float | None) is a sequence of     *)
(* length at most one: <<>> is None, <<v>> is the value v.                 *)
(***************************************************************************)
EXTENDS Integers, Sequences, FiniteSets, TLC

VARIABLES
    candles,    \* the candle series handed to a detector or to the VWAP service
    universe,   \* the instruments the gap scanner walks through, in scan order
    min_gap,    \* the scanner's threshold, a ratio [num, den]
    scan,       \* scan_gap_up's locals: next instrument, result, max_gap, max_stock
    saved,      \* rows of the vwap_levels table
    call,       \* "idle", or the operation that was invoked
    out,        \* what the operation produced: Ok(result), Raise(error) or NoOut
    served,     \* the invocations answered so far: detector, series, response
    market,     \* the scanner at the market-data API: where it stands, what it did
    run,        \* the orchestrator's run(): where it stands and its locals
    report,     \* reports/strategy_results.csv: None, or its header and data rows
    today       \* date.today(), counted in days

vars ==
    <<candles, universe, min_gap, scan, saved, call, out, served, market, run,
      report, today>>

----------------------------------------------------------------------------
(* Shared helpers *)

None == <<>>

Some(v) == <<v>>

Ok(r) == [status |-> "ok", result |-> r]

Raise(e) == [status |-> "raise", error |-> e]

NoOut == [status |-> "none"]

Abs(x) == IF x < 0 THEN -x ELSE x

Min2(a, b) == IF a < b THEN a ELSE b

Max2(a, b) == IF a > b THEN a ELSE b

SetMin(S) == CHOOSE x \in S : \A y \in S : x <= y

SetMax(S) == CHOOSE x \in S : \A y \in S : x >= y

RECURSIVE SeqSum(_)
SeqSum(s) == IF s = <<>> THEN 0 ELSE Head(s) + SeqSum(Tail(s))

\* s[i] with the source's 0-based index
At(s, i) == s[i + 1]

\* s[a:b] with the source's 0-based, end-exclusive slice (0 <= a)
Slice(s, a, b) == SubSeq(s, a + 1, Min2(b, Len(s)))

SeqSet(s) == {s[k] : k \in 1..Len(s)}

highs_of(c) == [k \in 1..Len(c) |-> c[k].high]

lows_of(c) == [k \in 1..Len(c) |-> c[k].low]

volumes_of(c) == [k \in 1..Len(c) |-> c[k].volume]

----------------------------------------------------------------------------
(* Gap-and-Go: strategies/gap_and_go.py *)

\* candles[1:5]: the scan stops after the fifth candle
GapGoLastCandle == 5

\* for idx, candle in enumerate(candles[1:5], start=2): first candle whose
\* high is above fh, as its 1-based position, or 0 when the loop runs out
\* the comparison written ch >= fh
RECURSIVE gag_scan_ge(_, _, _)
gag_scan_ge(c, fh, idx) ==
    IF idx > GapGoLastCandle \/ idx > Len(c) THEN 0
    ELSE IF c[idx].high >= fh THEN idx
    ELSE gag_scan_ge(c, fh, idx + 1)

RECURSIVE gag_scan(_, _, _)
gag_scan(c, fh, idx) ==
    IF idx > GapGoLastCandle \/ idx > Len(c) THEN 0
    ELSE IF c[idx].high > fh THEN idx
    ELSE gag_scan(c, fh, idx + 1)

\* the first candle's low reported as the entry and its high as the stop
gap_and_go_swapped(c) ==
    IF c = <<>> THEN Raise("HTTPException 500")
    ELSE LET fh == c[1].high
             fl == c[1].low
             hit == gag_scan(c, fh, 2)
         IN  Ok([first_candle_high |-> fh,
                 first_candle_low  |-> fl,
                 triggered    |-> hit # 0,
                 entry_price  |-> IF hit # 0 THEN Some(fl) ELSE None,
                 stop_price   |-> IF hit # 0 THEN Some(fh) ELSE None,
                 trigger_time |-> IF hit # 0 THEN Some(c[hit].time) ELSE None])

\* gap_and_go: no candles is an HTTP 500; otherwise the first candle's range
\* and the first break of its high among candles 2..5
gap_and_go(c) ==
    IF c = <<>> THEN Raise("HTTPException 500")
    ELSE LET fh == c[1].high
             fl == c[1].low
             hit == gag_scan(c, fh, 2)
         IN  Ok([first_candle_high |-> fh,
                 first_candle_low  |-> fl,
                 triggered    |-> hit # 0,
                 entry_price  |-> IF hit # 0 THEN Some(fh) ELSE None,
                 stop_price   |-> IF hit # 0 THEN Some(fl) ELSE None,
                 trigger_time |-> IF hit # 0 THEN Some(c[hit].time) ELSE None])

----------------------------------------------------------------------------
(* Flat-Top / Flat-Bottom breakout: strategies/flat_breakout.py *)

PatternResult(t, e, s, tt) ==
    [triggered |-> t, entry_price |-> e, stop_price |-> s, trigger_time |-> tt]

\* abs(hj - prev_max) < 1e-9: one nano, the smallest step of a Quotation
TouchEps == 1

\* seen[h] = seen.get(h, 0) + 1
SeenAdd(seen, h) ==
    IF h \in DOMAIN seen THEN [seen EXCEPT ![h] = @ + 1]
    ELSE [x \in DOMAIN seen \cup {h} |-> IF x = h THEN 1 ELSE seen[x]]

\* seen.get(h, 0)
SeenGet(seen, h) == IF h \in DOMAIN seen THEN seen[h] ELSE 0

\* the first touch of the level taken for the last one
last_touch_first(xs, i, level) ==
    SetMin({j \in 0..(i - 1) : Abs(At(xs, j) - level) < TouchEps})

\* max(j for j, xj in enumerate(xs[:i]) if abs(xj - level) < 1e-9)
last_touch(xs, i, level) ==
    SetMax({j \in 0..(i - 1) : Abs(At(xs, j) - level) < TouchEps})

RECURSIVE flat_top_loop(_, _, _, _)
flat_top_loop(c, i, max_so_far, seen_highs) ==
    IF i >= Len(c) THEN PatternResult(FALSE, None, None, None)
    ELSE LET highs == highs_of(c)
             lows == lows_of(c)
             h == At(highs, i)
             seen == SeenAdd(seen_highs, h)
         IN  IF h > max_so_far
             THEN LET prev_max == max_so_far
                  IN  IF SeenGet(seen, prev_max) >= 2
                      THEN LET last_touch_index == last_touch(highs, i, prev_max)
                               stop_price ==
                                   IF last_touch_index < i - 1
                                   THEN SetMin(SeqSet(Slice(lows, last_touch_index + 1, i)))
                                   ELSE At(lows, last_touch_index)
                           IN  PatternResult(TRUE, Some(prev_max), Some(stop_price),
                                             Some(At(c, i).time))
                      ELSE flat_top_loop(c, i + 1, h, seen)
             ELSE flat_top_loop(c, i + 1, max_so_far, seen)

\* the first candle's high left out of the touch counts
analyze_flat_top_unseeded(c) ==
    IF c = <<>> THEN Raise("IndexError")
    ELSE Ok(flat_top_loop(c, 1, c[1].high, <<>>))

analyze_flat_top(c) ==
    IF c = <<>> THEN Raise("IndexError")
    ELSE Ok(flat_top_loop(c, 1, c[1].high, SeenAdd(<<>>, c[1].high)))

RECURSIVE flat_bottom_loop(_, _, _, _)
flat_bottom_loop(c, i, min_so_far, seen_lows) ==
    IF i >= Len(c) THEN PatternResult(FALSE, None, None, None)
    ELSE LET highs == highs_of(c)
             lows == lows_of(c)
             lo == At(lows, i)
             seen == SeenAdd(seen_lows, lo)
         IN  IF lo < min_so_far
             THEN LET prev_min == min_so_far
                  IN  IF SeenGet(seen, prev_min) >= 2
                      THEN LET last_touch_index == last_touch(lows, i, prev_min)
                               stop_price ==
                                   IF last_touch_index < i - 1
                                   THEN SetMax(SeqSet(Slice(highs, last_touch_index + 1, i)))
                                   ELSE At(highs, last_touch_index)
                           IN  PatternResult(TRUE, Some(prev_min), Some(stop_price),
                                             Some(At(c, i).time))
                      ELSE flat_bottom_loop(c, i + 1, lo, seen)
             ELSE flat_bottom_loop(c, i + 1, min_so_far, seen)

\* the first candle's low left out of the touch counts
analyze_flat_bottom_unseeded(c) ==
    IF c = <<>> THEN Raise("IndexError")
    ELSE Ok(flat_bottom_loop(c, 1, c[1].low, <<>>))

analyze_flat_bottom(c) ==
    IF c = <<>> THEN Raise("IndexError")
    ELSE Ok(flat_bottom_loop(c, 1, c[1].low, SeenAdd(<<>>, c[1].low)))

----------------------------------------------------------------------------
(* Bull Flag: strategies/bull_flag.py *)

StrategyResult(t, e, s, tg, tt) ==
    [triggered |-> t, entry_price |-> e, stop_price |-> s,
     target_price |-> tg, trigger_time |-> tt]

Untriggered == StrategyResult(FALSE, None, None, None, None)

\* start_window = max(0, peak_index - 10)
LookbackCandles == 10

\* breakout volume must be at least 2 x the average consolidation volume
VolumeMultiplier == 2

\* while j < n and highs[j] <= peak_price: track the lowest low, j += 1
RECURSIVE consolidation_scan(_, _, _, _, _)
consolidation_scan(highs, lows, peak_price, j, lowest_low) ==
    IF j < Len(highs) /\ At(highs, j) <= peak_price
    THEN consolidation_scan(highs, lows, peak_price, j + 1,
                            IF At(lows, j) < lowest_low THEN At(lows, j) ELSE lowest_low)
    ELSE [j |-> j, lowest_low |-> lowest_low]

\* cons_volumes = volumes[i+1:j] if j > i+1 else [volumes[i+1]]
cons_volumes_of(volumes, i, j) ==
    IF j > i + 1 THEN Slice(volumes, i + 1, j) ELSE <<At(volumes, i + 1)>>

\* a breakout volume of exactly twice the average turned away
breakout_volume_low_strict(breakout_vol, cons_volumes) ==
    IF cons_volumes = <<>> \/ SeqSum(cons_volumes) = 0
    THEN breakout_vol <= VolumeMultiplier * 1
    ELSE breakout_vol * Len(cons_volumes) <= VolumeMultiplier * SeqSum(cons_volumes)

\* volumes[j] < 2 * avg_cons_vol, with avg = sum / len and a zero average
\* replaced by 1 (compared without dividing: len > 0)
breakout_volume_low(breakout_vol, cons_volumes) ==
    IF cons_volumes = <<>> \/ SeqSum(cons_volumes) = 0
    THEN breakout_vol < VolumeMultiplier * 1
    ELSE breakout_vol * Len(cons_volumes) < VolumeMultiplier * SeqSum(cons_volumes)

\* the window opened at the first candle of the series
window_start_whole(peak_index) == 0

\* min(lows[start_window : peak_index + 1]) with start_window = max(0, peak_index - 10)
window_start(peak_index) == Max2(0, peak_index - LookbackCandles)

\* the window cut to ten candles, the peak candle among them
window_low_short(lows, peak_index) ==
    SetMin(SeqSet(Slice(lows, Max2(0, peak_index + 1 - LookbackCandles), peak_index + 1)))

\* the low of the peak candle alone taken for the window's
window_low_peak_only(lows, peak_index) == At(lows, peak_index)

window_low(lows, peak_index) ==
    SetMin(SeqSet(Slice(lows, window_start(peak_index), peak_index + 1)))

\* the scan carried on after a confirmed flag, a later one replacing it
RECURSIVE bull_flag_loop_last(_, _)
bull_flag_loop_last(c, i) ==
    LET n == Len(c)
        highs == highs_of(c)
        lows == lows_of(c)
        volumes == volumes_of(c)
    IN  IF i >= n - 2 THEN Untriggered
        ELSE IF At(highs, i) <= At(highs, i - 1) \/ At(highs, i) <= At(highs, i + 1)
        THEN bull_flag_loop_last(c, i + 1)
        ELSE IF ~(At(highs, i + 1) < At(highs, i) /\ At(highs, i + 2) < At(highs, i + 1))
        THEN bull_flag_loop_last(c, i + 1)
        ELSE LET peak_price == At(highs, i)
                 cons == consolidation_scan(highs, lows, peak_price, i + 1, peak_price)
                 j == cons.j
                 later == bull_flag_loop_last(c, i + 1)
             IN  IF ~(j < n /\ At(highs, j) > peak_price) THEN later
                 ELSE IF breakout_volume_low(At(volumes, j), cons_volumes_of(volumes, i, j))
                 THEN later
                 ELSE IF later.triggered THEN later
                 ELSE StrategyResult(TRUE, Some(peak_price), Some(cons.lowest_low),
                                     Some(2 * peak_price - window_low(lows, i)),
                                     Some(At(c, j).time))

\* a peak taken without looking for the two lower highs after it
RECURSIVE bull_flag_loop_any_peak(_, _)
bull_flag_loop_any_peak(c, i) ==
    LET n == Len(c)
        highs == highs_of(c)
        lows == lows_of(c)
        volumes == volumes_of(c)
    IN  IF i >= n - 2 THEN Untriggered
        ELSE IF At(highs, i) <= At(highs, i - 1) \/ At(highs, i) <= At(highs, i + 1)
        THEN bull_flag_loop_any_peak(c, i + 1)
        ELSE LET peak_price == At(highs, i)
                 cons == consolidation_scan(highs, lows, peak_price, i + 1, peak_price)
                 j == cons.j
             IN  IF ~(j < n /\ At(highs, j) > peak_price)
                 THEN bull_flag_loop_any_peak(c, i + 1)
                 ELSE IF breakout_volume_low(At(volumes, j), cons_volumes_of(volumes, i, j))
                 THEN bull_flag_loop_any_peak(c, i + 1)
                 ELSE StrategyResult(TRUE, Some(peak_price), Some(cons.lowest_low),
                                     Some(2 * peak_price - window_low(lows, i)),
                                     Some(At(c, j).time))

RECURSIVE bull_flag_loop(_, _)
bull_flag_loop(c, i) ==
    LET n == Len(c)
        highs == highs_of(c)
        lows == lows_of(c)
        volumes == volumes_of(c)
    IN  IF i >= n - 2 THEN Untriggered
        ELSE IF At(highs, i) <= At(highs, i - 1) \/ At(highs, i) <= At(highs, i + 1)
        THEN bull_flag_loop(c, i + 1)
        ELSE IF ~(At(highs, i + 1) < At(highs, i) /\ At(highs, i + 2) < At(highs, i + 1))
        THEN bull_flag_loop(c, i + 1)
        ELSE LET peak_index == i
                 peak_price == At(highs, i)
                 cons == consolidation_scan(highs, lows, peak_price, i + 1, peak_price)
                 j == cons.j
             IN  IF ~(j < n /\ At(highs, j) > peak_price)
                 THEN bull_flag_loop(c, i + 1)
                 ELSE IF breakout_volume_low(At(volumes, j), cons_volumes_of(volumes, i, j))
                 THEN bull_flag_loop(c, i + 1)
                 ELSE LET flagpole_low == window_low(lows, peak_index)
                          flagpole_height == peak_price - flagpole_low
                      IN  StrategyResult(TRUE, Some(peak_price), Some(cons.lowest_low),
                                         Some(peak_price + flagpole_height),
                                         Some(At(c, j).time))

\* the scan running to range(2, n): highs[i + 1] is read past the end of a
\* three-candle series whose last high is the highest
analyze_bull_flag_overrun(c) ==
    IF Len(c) = 3 /\ c[3].high > c[2].high THEN Raise("IndexError")
    ELSE Ok(bull_flag_loop(c, 2))

\* a confirmed flag kept between calls and answered again to later calls
analyze_bull_flag_remembering(c) ==
    IF \E r \in served : r.detector = "bull_flag" /\ r.out.result.triggered
    THEN (CHOOSE r \in served : r.detector = "bull_flag" /\ r.out.result.triggered).out
    ELSE Ok(bull_flag_loop(c, 2))

\* the scan begun one candle late, at range(3, n - 2)
analyze_bull_flag_from_three(c) == Ok(bull_flag_loop(c, 3))

analyze_bull_flag(c) == Ok(bull_flag_loop(c, 2))

----------------------------------------------------------------------------
(* ABCD: strategies/abcd.py *)

\* if n < 4: return ABCDResult(triggered=False)
AbcdMinCandles == 4

\* retrace_ratio < 0.2 or retrace_ratio > 0.8, as tenths
RetraceMinTenths == 2

RetraceMaxTenths == 8

\* the retracement bounds widened by a tenth on each side
retrace_out_of_range_wide(retrace, impulse_height) ==
    \/ 10 * retrace < (RetraceMinTenths - 1) * impulse_height
    \/ 10 * retrace > (RetraceMaxTenths + 1) * impulse_height

\* retrace / impulse_height outside [0.2, 0.8] (impulse_height > 0 here)
retrace_out_of_range(retrace, impulse_height) ==
    \/ 10 * retrace < RetraceMinTenths * impulse_height
    \/ 10 * retrace > RetraceMaxTenths * impulse_height

RECURSIVE abcd_loop(_, _)
abcd_loop(c, i) ==
    LET n == Len(c)
        highs == highs_of(c)
        lows == lows_of(c)
        volumes == volumes_of(c)
    IN  IF i >= n - 2 THEN Untriggered
        ELSE IF At(highs, i) <= At(highs, i - 1) \/ At(highs, i) <= At(highs, i + 1)
        THEN abcd_loop(c, i + 1)
        ELSE IF ~(At(highs, i + 1) < At(highs, i) /\ At(highs, i + 2) < At(highs, i + 1))
        THEN abcd_loop(c, i + 1)
        ELSE LET peak_index == i
                 peak_price == At(highs, i)
                 cons == consolidation_scan(highs, lows, peak_price, i + 1, peak_price)
                 j == cons.j
                 lowest_low == cons.lowest_low
             IN  IF ~(j < n /\ At(highs, j) > peak_price)
                 THEN abcd_loop(c, i + 1)
                 ELSE LET start_window == window_start(peak_index)
                          A_price == window_low(lows, peak_index)
                          impulse_height == peak_price - A_price
                          retrace == peak_price - lowest_low
                          cons_volumes == cons_volumes_of(volumes, i, j)
                          peak_vol_impulse ==
                              SetMax(SeqSet(Slice(volumes, start_window, peak_index + 1)))
                      IN  IF lowest_low <= A_price THEN abcd_loop(c, i + 1)
                          ELSE IF impulse_height <= 0 THEN abcd_loop(c, i + 1)
                          ELSE IF retrace_out_of_range(retrace, impulse_height)
                          THEN abcd_loop(c, i + 1)
                          ELSE IF cons_volumes # <<>>
                                  /\ SetMax(SeqSet(cons_volumes)) >= peak_vol_impulse
                          THEN abcd_loop(c, i + 1)
                          ELSE IF breakout_volume_low(At(volumes, j), cons_volumes)
                          THEN abcd_loop(c, i + 1)
                          ELSE StrategyResult(TRUE, Some(peak_price), Some(lowest_low),
                                              Some(peak_price + impulse_height),
                                              Some(At(c, j).time))

analyze_abcd(c) ==
    IF Len(c) < AbcdMinCandles THEN Ok(Untriggered) ELSE Ok(abcd_loop(c, 2))

----------------------------------------------------------------------------
(* First Pullback: strategies/first_pullback.py *)

\* if not candles or len(candles) < 2
PullbackMinCandles == 2

\* peak_price / open_price - 1 < 0.03, in percent
MinMovePercent == 3

\* step 1: for i in range(1, len(candles)): extend the peak while the high
\* makes a new maximum; the first candle that does not is the pullback start
RECURSIVE impulse_scan(_, _, _, _)
impulse_scan(c, i, peak_price, peak_volume) ==
    IF i >= Len(c)
    THEN [pullback_start_idx |-> None, peak_price |-> peak_price, peak_volume |-> peak_volume]
    ELSE IF At(c, i).high > peak_price
    THEN impulse_scan(c, i + 1, At(c, i).high,
                      IF At(c, i).volume > peak_volume THEN At(c, i).volume ELSE peak_volume)
    ELSE [pullback_start_idx |-> Some(i), peak_price |-> peak_price,
          peak_volume |-> peak_volume]

\* step 2: for j in range(pullback_start_idx, len(candles) - 1)
RECURSIVE pullback_scan(_, _, _, _)
pullback_scan(c, j, pullback_low, last_pullback_high) ==
    IF j >= Len(c) - 1
    THEN [trigger_idx |-> None, pullback_low |-> pullback_low,
          last_pullback_high |-> last_pullback_high]
    ELSE LET low2 == IF At(c, j).low < pullback_low THEN At(c, j).low ELSE pullback_low
         IN  IF At(c, j + 1).high > At(c, j).high
             THEN [trigger_idx |-> Some(j + 1), pullback_low |-> low2,
                   last_pullback_high |-> At(c, j).high]
             ELSE pullback_scan(c, j + 1, low2, last_pullback_high)

\* the levels assigned as soon as a trigger index is found, before the gates
pullback_gates_keep_levels(c, imp, pb) ==
    LET open_price == c[1].open
        peak_price == imp.peak_price
        start == imp.pullback_start_idx[1]
        trigger_idx == pb.trigger_idx[1]
        pullback_low == pb.pullback_low
        rejected == StrategyResult(FALSE, Some(pb.last_pullback_high), Some(pullback_low),
                                   Some(peak_price), None)
    IN  IF open_price = 0 THEN Raise("ZeroDivisionError")
        ELSE IF 100 * peak_price - 100 * open_price < MinMovePercent * open_price
        THEN Ok(rejected)
        ELSE IF SetMax(SeqSet(Slice(volumes_of(c), start, trigger_idx))) >= imp.peak_volume
        THEN Ok(rejected)
        ELSE IF 2 * pullback_low < 2 * open_price + (peak_price - open_price)
        THEN Ok(rejected)
        ELSE Ok(StrategyResult(TRUE, Some(pb.last_pullback_high), Some(pullback_low),
                               Some(peak_price), Some(At(c, trigger_idx).time)))

\* a pullback as loud as the impulse let through
pullback_gates_equal_volume(c, imp, pb) ==
    LET open_price == c[1].open
        peak_price == imp.peak_price
        start == imp.pullback_start_idx[1]
        trigger_idx == pb.trigger_idx[1]
        pullback_low == pb.pullback_low
    IN  IF open_price = 0 THEN Raise("ZeroDivisionError")
        ELSE IF 100 * peak_price - 100 * open_price < MinMovePercent * open_price
        THEN Ok(Untriggered)
        ELSE IF SetMax(SeqSet(Slice(volumes_of(c), start, trigger_idx))) > imp.peak_volume
        THEN Ok(Untriggered)
        ELSE IF 2 * pullback_low < 2 * open_price + (peak_price - open_price)
        THEN Ok(Untriggered)
        ELSE Ok(StrategyResult(TRUE, Some(pb.last_pullback_high), Some(pullback_low),
                               Some(peak_price), Some(At(c, trigger_idx).time)))

\* step 3: the quality gates; peak_price / open_price divides by the open
pullback_gates(c, imp, pb) ==
    LET open_price == c[1].open
        peak_price == imp.peak_price
        start == imp.pullback_start_idx[1]
        trigger_idx == pb.trigger_idx[1]
        pullback_low == pb.pullback_low
    IN  IF open_price = 0 THEN Raise("ZeroDivisionError")
        ELSE IF 100 * peak_price - 100 * open_price < MinMovePercent * open_price
        THEN Ok(Untriggered)
        ELSE IF SetMax(SeqSet(Slice(volumes_of(c), start, trigger_idx))) >= imp.peak_volume
        THEN Ok(Untriggered)
        ELSE IF 2 * pullback_low < 2 * open_price + (peak_price - open_price)
        THEN Ok(Untriggered)
        ELSE Ok(StrategyResult(TRUE, Some(pb.last_pullback_high), Some(pullback_low),
                               Some(peak_price), Some(At(c, trigger_idx).time)))

\* the resumption looked for from the candle after the pullback start
analyze_first_pullback_skip_start(c) ==
    IF Len(c) < PullbackMinCandles THEN Ok(Untriggered)
    ELSE LET imp == impulse_scan(c, 1, c[1].high, c[1].volume)
         IN  IF imp.pullback_start_idx = None THEN Ok(Untriggered)
             ELSE LET start == imp.pullback_start_idx[1]
                      pb == pullback_scan(c, start + 1, At(c, start).low, At(c, start).high)
                  IN  IF pb.trigger_idx = None THEN Ok(Untriggered)
                      ELSE pullback_gates(c, imp, pb)

analyze_first_pullback(c) ==
    IF Len(c) < PullbackMinCandles THEN Ok(Untriggered)
    ELSE LET imp == impulse_scan(c, 1, c[1].high, c[1].volume)
         IN  IF imp.pullback_start_idx = None THEN Ok(Untriggered)
             ELSE LET start == imp.pullback_start_idx[1]
                      pb == pullback_scan(c, start, At(c, start).low, At(c, start).high)
                  IN  IF pb.trigger_idx = None THEN Ok(Untriggered)
                      ELSE pullback_gates(c, imp, pb)

----------------------------------------------------------------------------
(* Gap scanner: gap_scanner/gap_scanner.py *)

\* A gap is the ratio num / den with den > 0, kept unreduced and compared
\* by cross-multiplication.
Ratio(n, d) == [num |-> n, den |-> d]

RatLt(a, b) == a.num * b.den < b.num * a.den

RatLe(a, b) == a.num * b.den <= b.num * a.den

RatEq(a, b) == a.num * b.den = b.num * a.den

\* min_gap: float = 0.10
DefaultMinGap == Ratio(1, 10)

\* result = [], max_gap = -inf (None), max_stock = None
ScanStart == [i |-> 0, result |-> <<>>, max_gap |-> None, max_stock |-> None]

\* the gap taken as the size of the move, its direction dropped
GapRecord_abs(uid, prev_close_price, today_open_price) ==
    [uid |-> uid, prev_close |-> prev_close_price, open |-> today_open_price,
     gap |-> Ratio(Abs(today_open_price - prev_close_price), prev_close_price)]

GapRecord(uid, prev_close_price, today_open_price) ==
    [uid |-> uid, prev_close |-> prev_close_price, open |-> today_open_price,
     gap |-> Ratio(today_open_price - prev_close_price, prev_close_price)]

\* before the first request of the loop body, nothing requested so far
MarketStart == [at |-> "prev", attempt |-> 1, log |-> <<>>]

\* the instrument produces a gap value: a share with both daily candles
has_both_candles(instr) ==
    /\ instr.instrument_type = "share"
    /\ instr.prev_candles # <<>>
    /\ instr.today_candles # <<>>

\* prev_candles[-1].close
prev_close_of(instr) == instr.prev_candles[Len(instr.prev_candles)].close

\* today_candles[0].open
today_open_of(instr) == instr.today_candles[1].open

\* the threshold test written gap > min_gap
scan_instrument_strict(st, uid, instr, mg) ==
    IF ~has_both_candles(instr) THEN [st EXCEPT !.i = @ + 1]
    ELSE LET rec == GapRecord(uid, prev_close_of(instr), today_open_of(instr))
             new_max == st.max_gap = None \/ RatLt(st.max_gap[1], rec.gap)
         IN  [i |-> st.i + 1,
              result |-> IF RatLt(mg, rec.gap) THEN Append(st.result, rec) ELSE st.result,
              max_gap |-> IF new_max THEN Some(rec.gap) ELSE st.max_gap,
              max_stock |-> IF new_max THEN Some(rec) ELSE st.max_stock]

\* the maximum tracked with gap >= max_gap: the last of equal maxima wins
scan_instrument_last_max(st, uid, instr, mg) ==
    IF ~has_both_candles(instr) THEN [st EXCEPT !.i = @ + 1]
    ELSE LET rec == GapRecord(uid, prev_close_of(instr), today_open_of(instr))
             new_max == st.max_gap = None \/ RatLe(st.max_gap[1], rec.gap)
         IN  [i |-> st.i + 1,
              result |-> IF RatLe(mg, rec.gap) THEN Append(st.result, rec) ELSE st.result,
              max_gap |-> IF new_max THEN Some(rec.gap) ELSE st.max_gap,
              max_stock |-> IF new_max THEN Some(rec) ELSE st.max_stock]

\* one pass of the loop body for the instrument with the given uid
scan_instrument(st, uid, instr, mg) ==
    IF ~has_both_candles(instr) THEN [st EXCEPT !.i = @ + 1]
    ELSE LET rec == GapRecord(uid, prev_close_of(instr), today_open_of(instr))
             new_max == st.max_gap = None \/ RatLt(st.max_gap[1], rec.gap)
         IN  [i |-> st.i + 1,
              result |-> IF RatLe(mg, rec.gap) THEN Append(st.result, rec) ELSE st.result,
              max_gap |-> IF new_max THEN Some(rec.gap) ELSE st.max_gap,
              max_stock |-> IF new_max THEN Some(rec) ELSE st.max_stock]

\* sorted(result, key=gap, reverse=True): a stable sort, so a record goes
\* behind every record whose gap is at least its own
\* an ascending sort read backwards: equal gaps come out in reverse scan order
RECURSIVE insert_by_gap_reversed(_, _)
insert_by_gap_reversed(sorted, x) ==
    IF sorted = <<>> THEN <<x>>
    ELSE IF RatLe(Head(sorted).gap, x.gap) THEN <<x>> \o sorted
    ELSE <<Head(sorted)>> \o insert_by_gap_reversed(Tail(sorted), x)

RECURSIVE insert_by_gap(_, _)
insert_by_gap(sorted, x) ==
    IF sorted = <<>> THEN <<x>>
    ELSE IF RatLt(Head(sorted).gap, x.gap) THEN <<x>> \o sorted
    ELSE <<Head(sorted)>> \o insert_by_gap(Tail(sorted), x)

RECURSIVE sorted_by_gap(_)
sorted_by_gap(s) ==
    IF s = <<>> THEN <<>>
    ELSE insert_by_gap(sorted_by_gap(SubSeq(s, 1, Len(s) - 1)), s[Len(s)])

\* after the loop: the max-gap fallback, then the sort
scan_result(st) ==
    sorted_by_gap(IF st.result = <<>> /\ st.max_stock # None
                  THEN Append(st.result, st.max_stock[1])
                  ELSE st.result)

\* /gap-up: r["gap_test"] = r["gap"] < min_gap for every record
read_gap_up(results, mg) ==
    [count |-> Len(results),
     results |-> [k \in 1..Len(results) |->
                     [uid |-> results[k].uid, prev_close |-> results[k].prev_close,
                      open |-> results[k].open, gap |-> results[k].gap,
                      gap_test |-> RatLt(results[k].gap, mg)]]]

Scanning == call \in {"idle", "scanning"}

\* the loop body for the next instrument
ScanInstrument ==
    /\ Scanning
    /\ scan.i < Len(universe)
    /\ LET instr == universe[scan.i + 1]
       IN  /\ has_both_candles(instr) => prev_close_of(instr) # 0
           /\ scan' = scan_instrument(scan, scan.i + 1, instr, min_gap)
    /\ call' = "scanning"
    /\ UNCHANGED <<candles, universe, min_gap, saved, out, served, market, run, report, today>>

\* (today_open_price - prev_close_price) / prev_close_price with a zero close
ScanDivideByZero ==
    /\ Scanning
    /\ scan.i < Len(universe)
    /\ has_both_candles(universe[scan.i + 1])
    /\ prev_close_of(universe[scan.i + 1]) = 0
    /\ call' = "scan_gap_up"
    /\ out' = Raise("ZeroDivisionError")
    /\ UNCHANGED <<candles, universe, min_gap, scan, saved, served, market, run, report, today>>

\* the loop is over: fallback, sort, return
ScanReturn ==
    /\ Scanning
    /\ scan.i = Len(universe)
    /\ call' = "scan_gap_up"
    /\ out' = Ok(scan_result(scan))
    /\ UNCHANGED <<candles, universe, min_gap, scan, saved, served, market, run, report, today>>

\* the endpoint flags the records scan_gap_up returned
ReadGapUp ==
    /\ call = "scan_gap_up"
    /\ out.status = "ok"
    /\ call' = "read_gap_up"
    /\ out' = Ok(read_gap_up(out.result, min_gap))
    /\ UNCHANGED <<candles, universe, min_gap, scan, saved, served, market, run, report, today>>

----------------------------------------------------------------------------
(* VWAP levels: vwap_levels/vwap_levels.py *)

\* A float is a fixed-point number: v counts 1/Scale-ths of a tick, rounded
\* down, and nan marks not-a-number.
Scale == 100

NaN == [nan |-> TRUE, v |-> 0]

Fl(x) == [nan |-> FALSE, v |-> x]

FAdd(a, b) == IF a.nan \/ b.nan THEN NaN ELSE Fl(a.v + b.v)

FSub(a, b) == IF a.nan \/ b.nan THEN NaN ELSE Fl(a.v - b.v)

\* integer square root, rounded down
RECURSIVE isqrt_between(_, _, _)
isqrt_between(x, lo, hi) ==
    IF lo >= hi THEN lo
    ELSE LET mid == (lo + hi + 1) \div 2
         IN  IF mid * mid <= x THEN isqrt_between(x, mid, hi)
             ELSE isqrt_between(x, lo, mid - 1)

Isqrt(x) == isqrt_between(x, 0, x)

\* Series.cumsum()
RECURSIVE cumsum(_)
cumsum(s) ==
    IF s = <<>> THEN <<>>
    ELSE LET front == cumsum(SubSeq(s, 1, Len(s) - 1))
         IN  Append(front, (IF front = <<>> THEN 0 ELSE front[Len(front)]) + s[Len(s)])

\* pv / vol, element by element; 0.0 / 0 is nan and raises nothing
compute_vwap(df) ==
    LET pv == cumsum([k \in 1..Len(df) |-> df[k].close * df[k].volume])
        vol == cumsum([k \in 1..Len(df) |-> df[k].volume])
    IN  [k \in 1..Len(df) |->
            IF vol[k] = 0 THEN NaN ELSE Fl((pv[k] * Scale) \div vol[k])]

\* the population deviation: divisor count (ddof = 0)
series_std_population(xs) ==
    LET valid == SelectSeq(xs, LAMBDA x : ~x.nan)
        count == Len(valid)
        vals == [k \in 1..count |-> valid[k].v]
        mean == SeqSum(vals) \div count
        sq == SeqSum([k \in 1..count |-> (vals[k] - mean) * (vals[k] - mean)])
    IN  IF count = 0 THEN NaN ELSE Fl(Isqrt(sq \div count))

\* Series.std(): nan entries are skipped, divisor count - 1, nan when fewer
\* than two entries are left
series_std(xs) ==
    LET valid == SelectSeq(xs, LAMBDA x : ~x.nan)
        count == Len(valid)
        vals == [k \in 1..count |-> valid[k].v]
        mean == SeqSum(vals) \div count
        sq == SeqSum([k \in 1..count |-> (vals[k] - mean) * (vals[k] - mean)])
    IN  IF count <= 1 THEN NaN ELSE Fl(Isqrt(sq \div (count - 1)))

\* _load_minute_candles raises on an empty answer; otherwise the band
calc_vwap_levels(c) ==
    IF c = <<>> THEN Raise("ValueError")
    ELSE LET vwap == compute_vwap(c)
             diff == [k \in 1..Len(c) |-> FSub(Fl(c[k].close * Scale), vwap[k])]
             std == series_std(diff)
             vwap_today == vwap[Len(c)]
         IN  Ok([vwap |-> vwap_today,
                 support |-> FSub(vwap_today, std),
                 resistance |-> FAdd(vwap_today, std),
                 std |-> std])

\* calc_vwap_levels: compute the band, _save_level, return it
CalcVwapLevels ==
    /\ call = "idle"
    /\ call' = "calc_vwap_levels"
    /\ out' = calc_vwap_levels(candles)
    /\ saved' = IF out'.status = "ok" THEN Append(saved, out'.result) ELSE saved
    /\ UNCHANGED <<candles, universe, min_gap, scan, served, market, run, report, today>>

----------------------------------------------------------------------------
(* Orchestrator: orchestrator/orchestrator.py. run() asks the gap scanner
   for today's gapping tickers, queries the six services for each, and puts
   the answers on top of the CSV report. A ticker is its number in the
   scanner's list; a report row is its date, ticker and strategy (the
   levels written beside them are left out). *)

\* the services in the order of the try blocks of the loop body
Services == <<"VWAP", "Gap&Go", "FlatBreakout", "BullFlag", "FirstPullback", "ABCD">>

\* the labels a service's answer is appended under
Labels(service) ==
    CASE service = "VWAP" -> <<"VWAP Levels">>
      [] service = "Gap&Go" -> <<"Gap&Go">>
      [] service = "FlatBreakout" ->
            <<"1m Flat-Top", "1m Flat-Bottom", "5m Flat-Top", "5m Flat-Bottom">>
      [] service = "BullFlag" -> <<"1m BullFlag", "5m BullFlag">>
      [] service = "FirstPullback" -> <<"1m FirstPullback", "5m FirstPullback">>
      [] service = "ABCD" -> <<"1m ABCD", "5m ABCD">>

\* What a request can come to: a body that is read; requests.get raising
\* (connection, timeout); raise_for_status raising on a non-2xx status;
\* json() or the reading of the body raising.
HttpOutcomes == {"ok", "exception", "status", "malformed"}

\* results_rows.append((ticker, label, res)) for each label of a body read;
\* nothing after `except Exception`
rows_of(ticker, service, outcome) ==
    IF outcome = "ok"
    THEN [k \in 1..Len(Labels(service)) |->
             [ticker |-> ticker, strategy |-> Labels(service)[k]]]
    ELSE <<>>

\* a failed request ending the work on its ticker
after_request_abandon(t, s, outcome) ==
    IF s < Len(Services) /\ outcome = "ok" THEN [t |-> t, s |-> s + 1]
    ELSE [t |-> t + 1, s |-> 1]

\* after a try block, whatever happened in it, comes the next try block;
\* after the last one the next ticker of `for gap in gaps["results"]`
after_request(t, s, outcome) ==
    IF s < Len(Services) THEN [t |-> t, s |-> s + 1]
    ELSE [t |-> t + 1, s |-> 1]

\* the keys of `grouped`: the tickers of results_rows in order of first
\* appearance
RECURSIVE grouped_tickers(_)
grouped_tickers(results_rows) ==
    IF results_rows = <<>> THEN <<>>
    ELSE LET before == grouped_tickers(SubSeq(results_rows, 1, Len(results_rows) - 1))
             tick == results_rows[Len(results_rows)].ticker
         IN  IF \E k \in 1..Len(before) : before[k] = tick THEN before
             ELSE Append(before, tick)

\* one ticker's strategies but the VWAP block, as rows dated `day`
ticker_rows(results_rows, tick, day) ==
    LET kept(r) == r.ticker = tick /\ r.strategy # "VWAP Levels"
        strategies == SelectSeq(results_rows, kept)
    IN  [k \in 1..Len(strategies) |->
            [date |-> day, ticker |-> tick, strategy |-> strategies[k].strategy]]

\* csv_rows: for tick, data in grouped.items(): for strat_name, res in ...
RECURSIVE rows_by_ticker(_, _, _)
rows_by_ticker(results_rows, ticks, day) ==
    IF ticks = <<>> THEN <<>>
    ELSE ticker_rows(results_rows, Head(ticks), day)
            \o rows_by_ticker(results_rows, Tail(ticks), day)

csv_rows_of(results_rows, day) ==
    rows_by_ticker(results_rows, grouped_tickers(results_rows), day)

\* the 15 column names written by writer.writerow(header)
Header == <<"date", "ticker", "strategy">>

\* a file holding today's rows already, left alone
DataOfToday(file, day) ==
    /\ file # None
    /\ file[1].rows # <<>>
    /\ file[1].rows[1].date = day

\* today's rows put on top whatever the file holds
write_report_always(file, day, results_rows) ==
    Some([header |-> Header,
          rows |-> csv_rows_of(results_rows, day)
                      \o (IF file = None THEN <<>> ELSE file[1].rows)])

\* the report step: nothing if the first data row is dated today; else
\* header, csv_rows, old_rows written to a temporary file moved over the
\* report
write_report(file, day, results_rows) ==
    IF DataOfToday(file, day) THEN file
    ELSE Some([header |-> Header,
               rows |-> csv_rows_of(results_rows, day)
                           \o (IF file = None THEN <<>> ELSE file[1].rows)])

\* run() not started: no call left to make, no locals
NoRun ==
    [pc |-> "idle", left |-> 0, listing |-> <<>>, gaps |-> <<>>, t |-> 0, s |-> 0,
     results_rows |-> <<>>, queried |-> <<>>, logged |-> "none"]

\* `left` calls of run() to come (the immediate one and the scheduler's),
\* the scanner having at most the tickers of `listing` to report
RunStart(left, listing) == [NoRun EXCEPT !.left = left, !.listing = listing]

\* run() is called and asks the gap scanner: an error or an empty list
\* ends the call, else the loop over the tickers begins
RunScan ==
    /\ run.pc = "idle"
    /\ run.left > 0
    /\ \E outcome \in HttpOutcomes : \E n \in 0..Len(run.listing) :
          LET gaps == IF outcome = "ok" THEN SubSeq(run.listing, 1, n) ELSE <<>>
          IN  run' = [run EXCEPT
                         !.left = @ - 1,
                         !.pc = IF gaps = <<>> THEN "idle" ELSE "query",
                         !.gaps = gaps,
                         !.t = 1, !.s = 1,
                         !.results_rows = <<>>,
                         !.queried = <<>>,
                         !.logged = IF outcome # "ok" THEN "scanner error"
                                    ELSE IF gaps = <<>> THEN "no gaps" ELSE "none"]
    /\ UNCHANGED <<candles, universe, min_gap, scan, saved, call, out, served, market,
                   report, today>>

\* one try block of the loop body: the request to the next service for the
\* current ticker
RunQuery ==
    /\ run.pc = "query"
    /\ \E outcome \in HttpOutcomes :
          LET ticker == run.gaps[run.t]
              service == Services[run.s]
              then == after_request(run.t, run.s, outcome)
          IN  run' = [run EXCEPT
                         !.results_rows = @ \o rows_of(ticker, service, outcome),
                         !.queried = Append(@, [ticker |-> ticker, service |-> service,
                                                ok |-> outcome = "ok"]),
                         !.t = then.t, !.s = then.s,
                         !.pc = IF then.t > Len(run.gaps) THEN "report" ELSE "query"]
    /\ UNCHANGED <<candles, universe, min_gap, scan, saved, call, out, served, market,
                   report, today>>

\* the report step and the return of run()
RunReport ==
    /\ run.pc = "report"
    /\ report' = write_report(report, today, run.results_rows)
    /\ run' = [run EXCEPT
                  !.pc = "idle",
                  !.logged = IF DataOfToday(report, today) THEN "unchanged"
                             ELSE "updated"]
    /\ UNCHANGED <<candles, universe, min_gap, scan, saved, call, out, served, market,
                   today>>

MaxDay == 2

\* midnight passes; the date is read in the report step, so midnights
\* during the requests count as one before it
NextDay ==
    /\ run.pc \in {"idle", "report"}
    /\ today < MaxDay
    /\ today' = today + 1
    /\ UNCHANGED <<candles, universe, min_gap, scan, saved, call, out, served, market,
                   run, report>>

----------------------------------------------------------------------------
(* Inputs of the detectors *)

\* longest candle series handed to a detector
MaxLen == 6

Candle(t, o, h, l, cl, v) ==
    [time |-> t, open |-> o, high |-> h, low |-> l, close |-> cl, volume |-> v]

\* The candles a series is drawn from, as <<open, high, low, close, volume>>:
\* five price levels one tick apart, each candle opening at its low and
\* closing at its high, a loud (2) and a quiet (1) volume, and one candle
\* that opens at 0.
Shapes ==
    { <<0, 1, 0, 1, 2>>, <<1, 2, 1, 2, 1>>, <<2, 3, 2, 3, 1>>,
      <<3, 4, 3, 4, 2>>, <<3, 4, 3, 4, 1>>, <<4, 5, 4, 5, 2>> }

\* a CandleSeries: strictly ascending timestamps (candle k at instant k)
SeriesOf(f) ==
    [k \in DOMAIN f |-> Candle(k, f[k][1], f[k][2], f[k][3], f[k][4], f[k][5])]

\* candles is some series of at most MaxLen candles
IsSeries(c) == \E n \in 0..MaxLen : \E f \in [1..n -> Shapes] : c = SeriesOf(f)

----------------------------------------------------------------------------
(* The detectors as operations: one request, one response *)

GapAndGo ==
    /\ call = "idle"
    /\ call' = "gap_and_go"
    /\ out' = gap_and_go(candles)
    /\ UNCHANGED <<candles, universe, min_gap, scan, saved, served, market, run, report, today>>

FlatTop ==
    /\ call = "idle"
    /\ call' = "flat_top"
    /\ out' = analyze_flat_top(candles)
    /\ UNCHANGED <<candles, universe, min_gap, scan, saved, served, market, run, report, today>>

FlatBottom ==
    /\ call = "idle"
    /\ call' = "flat_bottom"
    /\ out' = analyze_flat_bottom(candles)
    /\ UNCHANGED <<candles, universe, min_gap, scan, saved, served, market, run, report, today>>

BullFlag ==
    /\ call = "idle"
    /\ call' = "bull_flag"
    /\ out' = analyze_bull_flag(candles)
    /\ UNCHANGED <<candles, universe, min_gap, scan, saved, served, market, run, report, today>>

FirstPullback ==
    /\ call = "idle"
    /\ call' = "first_pullback"
    /\ out' = analyze_first_pullback(candles)
    /\ UNCHANGED <<candles, universe, min_gap, scan, saved, served, market, run, report, today>>

ABCD ==
    /\ call = "idle"
    /\ call' = "abcd"
    /\ out' = analyze_abcd(candles)
    /\ UNCHANGED <<candles, universe, min_gap, scan, saved, served, market, run, report, today>>

Init ==
    /\ IsSeries(candles)
    /\ universe = <<>>
    /\ min_gap = DefaultMinGap
    /\ scan = ScanStart
    /\ saved = <<>>
    /\ call = "idle"
    /\ out = NoOut
    /\ served = {}
    /\ market = MarketStart
    /\ run = NoRun
    /\ report = None
    /\ today = 1

Next == GapAndGo \/ FlatTop \/ FlatBottom \/ BullFlag \/ FirstPullback \/ ABCD

\* the six detectors on a well-formed series
Spec == Init /\ [][Next]_vars

----------------------------------------------------------------------------
(* The detectors and the VWAP service on series whose timestamps are in any
   order *)

MaxLenUnsorted == 3

MaxTime == 3

InitUnsorted ==
    /\ \E n \in 0..MaxLenUnsorted : \E f \in [1..n -> Shapes] : \E t \in [1..n -> 1..MaxTime] :
          candles = [k \in 1..n |->
                        Candle(t[k], f[k][1], f[k][2], f[k][3], f[k][4], f[k][5])]
    /\ universe = <<>>
    /\ min_gap = DefaultMinGap
    /\ scan = ScanStart
    /\ saved = <<>>
    /\ call = "idle"
    /\ out = NoOut
    /\ served = {}
    /\ market = MarketStart
    /\ run = NoRun
    /\ report = None
    /\ today = 1

NextUnsorted == Next \/ CalcVwapLevels

SpecUnsorted == InitUnsorted /\ [][NextUnsorted]_vars

----------------------------------------------------------------------------
(* The VWAP service on one session's minute candles *)

MaxLenVwap == 3

MaxClose == 3

MaxVolume == 2

InitVwap ==
    /\ \E n \in 0..MaxLenVwap : \E f \in [1..n -> (1..MaxClose) \X (0..MaxVolume)] :
          candles = [k \in 1..n |->
                        Candle(k, f[k][1], f[k][1], f[k][1], f[k][1], f[k][2])]
    /\ universe = <<>>
    /\ min_gap = DefaultMinGap
    /\ scan = ScanStart
    /\ saved = <<>>
    /\ call = "idle"
    /\ out = NoOut
    /\ served = {}
    /\ market = MarketStart
    /\ run = NoRun
    /\ report = None
    /\ today = 1

NextVwap == CalcVwapLevels

SpecVwap == InitVwap /\ [][NextVwap]_vars

----------------------------------------------------------------------------
(* The gap scanner on a universe of instruments *)

MaxInstruments == 3

MaxPrevClose == 2

MaxOpen == 2

\* thresholds are 0/MinGapDen .. MaxMinGapNum/MinGapDen
MinGapDen == 2

MaxMinGapNum == 2

Instrument(type, prev_candles, today_candles) ==
    [instrument_type |-> type, prev_candles |-> prev_candles,
     today_candles |-> today_candles]

\* not a share; a share without yesterday's candle; a share without today's
\* candle; a share with both
Instruments ==
    { Instrument("bond", <<[close |-> 1]>>, <<[open |-> 1]>>),
      Instrument("share", <<>>, <<[open |-> 1]>>),
      Instrument("share", <<[close |-> 1]>>, <<>>) }
    \cup { Instrument("share", <<[close |-> p]>>, <<[open |-> o]>>) :
              p \in 0..MaxPrevClose, o \in 1..MaxOpen }

InitGap ==
    /\ \E n \in 0..MaxInstruments : universe \in [1..n -> Instruments]
    /\ \E k \in 0..MaxMinGapNum : min_gap = Ratio(k, MinGapDen)
    /\ candles = <<>>
    /\ scan = ScanStart
    /\ saved = <<>>
    /\ call = "idle"
    /\ out = NoOut
    /\ served = {}
    /\ market = MarketStart
    /\ run = NoRun
    /\ report = None
    /\ today = 1

NextGap == ScanInstrument \/ ScanDivideByZero \/ ScanReturn \/ ReadGapUp

SpecGap == InitGap /\ [][NextGap]_vars

----------------------------------------------------------------------------
(* The scanner's requests for daily candles: gap_scanner.py 127-189. The
   market-data API answers each request with candles or with a RequestError,
   and the scanner's log keeps every request and every sleep. *)

MaxInstrumentsRetry == 2

\* time.sleep(60)
RetrySleepSeconds == 60

\* what get_candles does: answer, or raise RequestError with this text
ApiOutcomes == {"ok", "RESOURCE_EXHAUSTED", "UNAVAILABLE"}

Requested(uid, day, attempt, outcome) ==
    [what |-> "request", uid |-> uid, day |-> day, attempt |-> attempt,
     outcome |-> outcome]

Slept(uid, day, seconds) ==
    [what |-> "sleep", uid |-> uid, day |-> day, attempt |-> 1,
     outcome |-> seconds]

\* every RequestError answered with a sleep and a retry
after_attempt_retry_any(attempt, outcome) ==
    IF outcome = "ok" THEN "candles"
    ELSE IF attempt = 1 THEN "retry"
    ELSE "skip"

\* try / except RequestError as e: if "RESOURCE_EXHAUSTED" in str(e) the
\* first attempt is retried; the retry's except RequestError and the else
\* branch both `continue`
after_attempt(attempt, outcome) ==
    IF outcome = "ok" THEN "candles"
    ELSE IF attempt = 1 /\ outcome = "RESOURCE_EXHAUSTED" THEN "retry"
    ELSE "skip"

\* the candles an answered request returns
candles_of(instr, day) ==
    IF day = "prev" THEN instr.prev_candles ELSE instr.today_candles

\* if instr.instrument_type != "share": continue
SkipNonShare ==
    /\ Scanning
    /\ scan.i < Len(universe)
    /\ universe[scan.i + 1].instrument_type # "share"
    /\ scan' = [scan EXCEPT !.i = @ + 1]
    /\ call' = "scanning"
    /\ UNCHANGED <<candles, universe, min_gap, saved, out, served, market, run, report, today>>

\* One attempt of the request the loop body stands at, and what follows
\* it: the sleep before a retry; `continue` after an error or an empty
\* answer; the next request after yesterday's candles; the rest of the
\* body (gap, maximum, threshold) after today's.
GetCandles ==
    /\ Scanning
    /\ scan.i < Len(universe)
    /\ universe[scan.i + 1].instrument_type = "share"
    /\ \E outcome \in ApiOutcomes :
          LET uid == scan.i + 1
              instr == universe[uid]
              logged == Append(market.log,
                               Requested(uid, market.at, market.attempt, outcome))
              then == after_attempt(market.attempt, outcome)
          IN  IF then = "retry"
              THEN /\ market' = [at |-> market.at, attempt |-> 2,
                                 log |-> Append(logged,
                                                Slept(uid, market.at, RetrySleepSeconds))]
                   /\ scan' = scan
              ELSE IF then = "skip" \/ candles_of(instr, market.at) = <<>>
              THEN /\ market' = [at |-> "prev", attempt |-> 1, log |-> logged]
                   /\ scan' = [scan EXCEPT !.i = @ + 1]
              ELSE IF market.at = "prev"
              THEN /\ market' = [at |-> "today", attempt |-> 1, log |-> logged]
                   /\ scan' = scan
              ELSE /\ market' = [at |-> "prev", attempt |-> 1, log |-> logged]
                   /\ scan' = scan_instrument(scan, uid, instr, min_gap)
    /\ call' = "scanning"
    /\ UNCHANGED <<candles, universe, min_gap, saved, out, served, run, report, today>>

\* not a share; a share the API has no candle of yesterday for; shares
\* with both candles, gapping by 0, by 1/10 and by 1/5
RetryInstruments ==
    { Instrument("bond", <<[close |-> 10]>>, <<[open |-> 10]>>),
      Instrument("share", <<>>, <<[open |-> 10]>>),
      Instrument("share", <<[close |-> 10]>>, <<[open |-> 10]>>),
      Instrument("share", <<[close |-> 10]>>, <<[open |-> 11]>>),
      Instrument("share", <<[close |-> 10]>>, <<[open |-> 12]>>) }

InitRetry ==
    /\ \E n \in 0..MaxInstrumentsRetry : universe \in [1..n -> RetryInstruments]
    /\ min_gap = DefaultMinGap
    /\ candles = <<>>
    /\ scan = ScanStart
    /\ saved = <<>>
    /\ call = "idle"
    /\ out = NoOut
    /\ served = {}
    /\ market = MarketStart
    /\ run = NoRun
    /\ report = None
    /\ today = 1

NextRetry == SkipNonShare \/ GetCandles \/ ScanReturn

SpecRetry == InitRetry /\ [][NextRetry]_vars

----------------------------------------------------------------------------
(* The two flat-breakout analyses on series whose highs and lows vary
   independently of each other *)

MaxLenFlat == 4

\* three levels of high and three of low (no low above any high)
FlatHighs == {2, 3, 4}

FlatLows == {0, 1, 2}

InitFlat ==
    /\ \E n \in 0..MaxLenFlat : \E f \in [1..n -> FlatHighs \X FlatLows] :
          candles = [k \in 1..n |->
                        Candle(k, f[k][2], f[k][1], f[k][2], f[k][1], 1)]
    /\ universe = <<>>
    /\ min_gap = DefaultMinGap
    /\ scan = ScanStart
    /\ saved = <<>>
    /\ call = "idle"
    /\ out = NoOut
    /\ served = {}
    /\ market = MarketStart
    /\ run = NoRun
    /\ report = None
    /\ today = 1

NextFlat == FlatTop \/ FlatBottom

SpecFlat == InitFlat /\ [][NextFlat]_vars

----------------------------------------------------------------------------
(* The First Pullback analysis on series placed around its three gates: an
   open of 100 (or 0), highs 2%, 3% and 4% above it, lows 1% and 2% above
   it, a quiet and a loud volume *)

MaxLenPullback == 4

PullbackOpens == {0, 100}

PullbackHighs == {102, 103, 104}

PullbackLows == {101, 102}

PullbackVolumes == {1, 2}

InitPullback ==
    /\ \E n \in 0..MaxLenPullback : \E o \in PullbackOpens :
       \E f \in [1..n -> PullbackHighs \X PullbackLows \X PullbackVolumes] :
          candles = [k \in 1..n |->
                        Candle(k, IF k = 1 THEN o ELSE f[k][2], f[k][1], f[k][2],
                               f[k][1], f[k][3])]
    /\ universe = <<>>
    /\ min_gap = DefaultMinGap
    /\ scan = ScanStart
    /\ saved = <<>>
    /\ call = "idle"
    /\ out = NoOut
    /\ served = {}
    /\ market = MarketStart
    /\ run = NoRun
    /\ report = None
    /\ today = 1

NextPullback == FirstPullback

SpecPullback == InitPullback /\ [][NextPullback]_vars

----------------------------------------------------------------------------
(* Bull Flag and ABCD on two kinds of session: two flags in a row, each
   candle drawn from a few variants placed around the gates; and a long
   run-up to a single flag *)

MaxLenFlag == 9

\* The variants of candle k (from 1) of the two-flag session, as
\* <<high, low, volume>>. Candles 1-2 lead up to the first peak (high 20,
\* candle 3), candles 4-5 pull back, candle 6 breaks out and is the second
\* peak (high 30), candles 7-8 pull back, candle 9 breaks out again. The
\* lows put the retracement on and beside 0.2 and 0.8 of an impulse of 10 or
\* 11 ticks; the volumes put the breakout on and beside twice the average.
FlagVariants(k) ==
    CASE k = 1 -> { <<12, 10, 1>>, <<12, 9, 1>> }
      [] k = 2 -> { <<15, 13, 1>>, <<15, 13, 3>> }
      [] k = 3 -> { <<20, 16, 2>>, <<20, 16, 1>> }
      [] k = 4 -> { <<19, 18, 0>>, <<19, 18, 1>>, <<19, 18, 2>>, <<20, 18, 1>> }
      [] k = 5 -> { <<18, 18, 1>>, <<18, 16, 1>>, <<18, 12, 1>>, <<18, 11, 1>>,
                    <<18, 10, 1>>, <<18, 18, 0>>, <<19, 18, 1>> }
      [] k = 6 -> { <<30, 25, 1>>, <<30, 25, 2>>, <<30, 25, 3>>, <<20, 18, 2>> }
      [] k = 7 -> { <<29, 26, 1>>, <<29, 26, 2>> }
      [] k = 8 -> { <<28, 26, 1>>, <<28, 20, 1>> }
      [] k = 9 -> { <<40, 35, 1>>, <<40, 35, 4>>, <<40, 35, 6>> }
      [] OTHER -> { <<41, 36, 1>>, <<39, 35, 1>> }

\* a candle opening at its low and closing at its high
ShapeOf(t, hlv) == Candle(t, hlv[2], hlv[1], hlv[2], hlv[1], hlv[3])

\* the sessions of n candles: the first n candles of a two-flag session
RECURSIVE FlagDays(_)
FlagDays(n) ==
    IF n = 0 THEN {<<>>}
    ELSE {Append(s, ShapeOf(n, v)) : s \in FlagDays(n - 1), v \in FlagVariants(n)}

MaxRamp == 11

\* A run-up of r candles with rising highs, then a flag: peak (candle r,
\* from 0), two lower highs, breakout. The run-up's lows are 190 and its
\* volumes 1, but for one deep candle d (low 180) and one loud candle e
\* (volume 3); d = r or e = r places none.
RampCandle(k, r, d, e) ==
    IF k < r THEN <<200 + k, IF k = d THEN 180 ELSE 190, IF k = e THEN 3 ELSE 1>>
    ELSE IF k = r THEN <<230, 195, 1>>
    ELSE IF k = r + 1 THEN <<229, 215, 2>>
    ELSE IF k = r + 2 THEN <<228, 215, 2>>
    ELSE <<231, 220, 4>>

RampDay(r, d, e) == [k \in 1..(r + 4) |-> ShapeOf(k, RampCandle(k - 1, r, d, e))]

InitFlag ==
    /\ \/ \E n \in 0..MaxLenFlag : candles \in FlagDays(n)
       \/ \E r \in 2..MaxRamp : \E d \in 0..r : \E e \in 0..r : candles = RampDay(r, d, e)
    /\ universe = <<>>
    /\ min_gap = DefaultMinGap
    /\ scan = ScanStart
    /\ saved = <<>>
    /\ call = "idle"
    /\ out = NoOut
    /\ served = {}
    /\ market = MarketStart
    /\ run = NoRun
    /\ report = None
    /\ today = 1

NextFlag == BullFlag \/ ABCD

SpecFlag == InitFlag /\ [][NextFlag]_vars

----------------------------------------------------------------------------
(* The detectors behind their endpoints: one request after another, each
   with its own series, and every answer kept for comparison *)

MaxServed == 3

\* The sessions requests are made for: none at all, a flat top broken on
\* the third candle, a run-up to a flag, and the same run-up with a deep
\* first candle.
RepeatSessions ==
    { <<>>,
      SeriesOf(<<(<<3, 4, 3, 4, 2>>), (<<3, 4, 3, 4, 1>>), (<<4, 5, 4, 5, 2>>)>>),
      RampDay(2, 2, 2),
      RampDay(2, 0, 2) }

\* the response is sent and the next request arrives with its own series
NextRequest ==
    /\ call \notin {"idle", "scanning"}
    /\ Cardinality(served) < MaxServed
    /\ served' = served \cup {[detector |-> call, series |-> candles, out |-> out]}
    /\ \E c \in RepeatSessions : candles' = c
    /\ call' = "idle"
    /\ out' = NoOut
    /\ UNCHANGED <<universe, min_gap, scan, saved, market, run, report, today>>

InitRepeat ==
    /\ candles \in RepeatSessions
    /\ universe = <<>>
    /\ min_gap = DefaultMinGap
    /\ scan = ScanStart
    /\ saved = <<>>
    /\ call = "idle"
    /\ out = NoOut
    /\ served = {}
    /\ market = MarketStart
    /\ run = NoRun
    /\ report = None
    /\ today = 1

NextRepeat ==
    GapAndGo \/ FlatTop \/ FlatBottom \/ BullFlag \/ FirstPullback \/ ABCD \/ NextRequest

SpecRepeat == InitRepeat /\ [][NextRepeat]_vars

----------------------------------------------------------------------------
(* One run of the orchestrator over the scanner's tickers *)

\* the scanner's list: no ticker, one, two
Listings == {<<>>, <<1>>, <<1, 2>>}

InitRun ==
    /\ \E listing \in Listings : run = RunStart(1, listing)
    /\ report = None
    /\ today = 1
    /\ candles = <<>>
    /\ universe = <<>>
    /\ min_gap = DefaultMinGap
    /\ scan = ScanStart
    /\ saved = <<>>
    /\ call = "idle"
    /\ out = NoOut
    /\ served = {}
    /\ market = MarketStart

NextRun == RunScan \/ RunQuery \/ RunReport \/ NextDay

SpecRun == InitRun /\ [][NextRun]_vars

----------------------------------------------------------------------------
(* Runs of the orchestrator one after another, on the same day and on later
   days, the scanner reporting one ticker at most *)

MaxRuns == 2

InitReport ==
    /\ run = RunStart(MaxRuns, <<1>>)
    /\ report = None
    /\ today = 1
    /\ candles = <<>>
    /\ universe = <<>>
    /\ min_gap = DefaultMinGap
    /\ scan = ScanStart
    /\ saved = <<>>
    /\ call = "idle"
    /\ out = NoOut
    /\ served = {}
    /\ market = MarketStart

NextReport == RunScan \/ RunQuery \/ RunReport \/ NextDay

SpecReport == InitReport /\ [][NextReport]_vars

----------------------------------------------------------------------------
(* Properties of the detectors *)

Detectors == {"gap_and_go", "flat_top", "flat_bottom", "bull_flag", "first_pullback", "abcd"}

Absent(r) ==
    /\ r.entry_price = None
    /\ r.stop_price = None
    /\ r.trigger_time = None
    /\ "target_price" \in DOMAIN r => r.target_price = None

\* C1: on a series shorter than the detector's minimum (fewer than 4 candles
\* for ABCD and Bull Flag, fewer than 2 for First Pullback, the empty series
\* included) the detector returns, untriggered, with entry, stop, target and
\* trigger time absent; it does not raise.
C1_ShortSeriesUntriggered ==
    (\/ call \in {"abcd", "bull_flag"} /\ Len(candles) < 4
     \/ call = "first_pullback" /\ Len(candles) < 2)
    => /\ out.status = "ok"
       /\ out.result.triggered = FALSE
       /\ out.result.target_price = None
       /\ Absent(out.result)

\* C1 witness: Bull Flag has answered for a three-candle series.
C1_Witness == call = "bull_flag" /\ Len(candles) = 3 /\ out.status = "ok"

\* C2 as stated: on the empty series and on a one-candle series Flat-Top,
\* Flat-Bottom and Gap-and-Go return an untriggered result and do not raise.
C2_EmptySeriesUntriggered ==
    (call \in {"flat_top", "flat_bottom", "gap_and_go"} /\ Len(candles) <= 1)
    => out.status = "ok" /\ out.result.triggered = FALSE

\* C2, the part the code keeps: on a one-candle series Flat-Top, Flat-Bottom
\* and Gap-and-Go return an untriggered result with the optional fields
\* absent; on the empty series each of them raises (IndexError in the two
\* flat analyses, HTTP 500 in the Gap-and-Go endpoint).
C2_OneCandleUntriggered ==
    call \in {"flat_top", "flat_bottom", "gap_and_go"}
    => /\ Len(candles) = 1 =>
             out.status = "ok" /\ out.result.triggered = FALSE /\ Absent(out.result)
       /\ Len(candles) = 0 => out.status = "raise"

\* C2 witness: the Flat-Top analysis was given the empty series and raised.
C2_Witness ==
    call = "flat_top" /\ Len(candles) = 0 /\ out.status = "raise"

\* C3: whatever a detector returns, an untriggered result has entry, stop,
\* target and trigger time absent, and a triggered result has entry, stop and
\* trigger time present.
C3_OptionalFieldsFollowTriggered ==
    (call \in Detectors /\ out.status = "ok")
    => /\ ~out.result.triggered => Absent(out.result)
       /\ out.result.triggered =>
             /\ out.result.entry_price # None
             /\ out.result.stop_price # None
             /\ out.result.trigger_time # None

\* C3 witness: First Pullback found a trigger index and the gates turned the
\* pattern down.
C3_Witness ==
    /\ call = "first_pullback"
    /\ out.status = "ok"
    /\ ~out.result.triggered
    /\ Len(candles) >= 2
    /\ LET imp == impulse_scan(candles, 1, candles[1].high, candles[1].volume)
       IN  /\ imp.pullback_start_idx # None
           /\ pullback_scan(candles, imp.pullback_start_idx[1],
                            At(candles, imp.pullback_start_idx[1]).low,
                            At(candles, imp.pullback_start_idx[1]).high).trigger_idx # None

\* candles 2..5 whose high is above the first candle's high
GapGoBreaks == {k \in 2..5 : k <= Len(candles) /\ candles[k].high > candles[1].high}

\* C10: Gap-and-Go is triggered iff one of candles 2..5 has a high strictly
\* above the first candle's high fh; then entry = fh, stop = fl and the
\* trigger time is that of the earliest such candle; fh and fl are reported
\* either way; and cutting the series after the triggering candle (or after
\* the fifth candle when nothing triggers) leaves the result as it is.
C10_GapAndGoFirstBreak ==
    (call = "gap_and_go" /\ out.status = "ok")
    => LET r == out.result
           fh == candles[1].high
           fl == candles[1].low
           last == IF GapGoBreaks # {} THEN SetMin(GapGoBreaks) ELSE Min2(5, Len(candles))
       IN  /\ r.triggered = (GapGoBreaks # {})
           /\ r.first_candle_high = fh
           /\ r.first_candle_low = fl
           /\ GapGoBreaks # {} =>
                 /\ r.entry_price = Some(fh)
                 /\ r.stop_price = Some(fl)
                 /\ r.trigger_time = Some(candles[SetMin(GapGoBreaks)].time)
           /\ \A m \in last..Len(candles) : gap_and_go(SubSeq(candles, 1, m)) = out

\* C10 witness: six candles, one of candles 2..5 touches fh without passing
\* it, the sixth is above fh, and the result is untriggered.
C10_Witness ==
    /\ call = "gap_and_go"
    /\ Len(candles) = 6
    /\ candles[6].high > candles[1].high
    /\ \E k \in 2..5 : candles[k].high = candles[1].high
    /\ out.status = "ok"
    /\ ~out.result.triggered

----------------------------------------------------------------------------
(* Properties of the gap scanner *)

\* the instruments that produce a gap value, by their place in the scan
WithGap ==
    {k \in 1..Len(universe) :
        has_both_candles(universe[k]) /\ prev_close_of(universe[k]) # 0}

GapOf(k) ==
    Ratio(today_open_of(universe[k]) - prev_close_of(universe[k]),
          prev_close_of(universe[k]))

\* the instruments whose gap is at least min_gap
Passing == {k \in WithGap : RatLe(min_gap, GapOf(k))}

\* the first scanned instrument among those with the largest gap
FirstMaxGap ==
    SetMin({k \in WithGap : \A j \in WithGap : RatLe(GapOf(j), GapOf(k))})

ScanReturned == call = "scan_gap_up" /\ out.status = "ok"

\* C4: when some instrument has gap >= min_gap, scan_gap_up returns exactly
\* the instruments that have both daily candles and gap = (open - prevClose)
\* / prevClose >= min_gap, each once; an instrument without one of its
\* candles is stepped over, is never collected and is never the tracked
\* maximum, and the instruments after it are still scanned.
C4_ThresholdFilter ==
    /\ (ScanReturned /\ Passing # {}) =>
          /\ {out.result[j].uid : j \in 1..Len(out.result)} = Passing
          /\ Len(out.result) = Cardinality(Passing)
          /\ \A j \in 1..Len(out.result) :
                LET k == out.result[j].uid
                IN  /\ out.result[j].prev_close = prev_close_of(universe[k])
                    /\ out.result[j].open = today_open_of(universe[k])
                    /\ RatEq(out.result[j].gap, GapOf(k))
    /\ scan.max_stock # None => scan.max_stock[1].uid \in WithGap
    /\ \A j \in 1..Len(scan.result) : scan.result[j].uid \in WithGap
    /\ ScanReturned => scan.i = Len(universe)

\* C4 witness: a share without one of its candles was scanned before an
\* instrument that passes the threshold, another instrument has a gap below
\* the threshold, and the scan has returned.
C4_Witness ==
    /\ ScanReturned
    /\ WithGap \ Passing # {}
    /\ \E k \in 1..Len(universe) : \E p \in Passing :
          /\ k < p
          /\ universe[k].instrument_type = "share"
          /\ ~has_both_candles(universe[k])
    /\ \E p \in Passing : RatEq(GapOf(p), min_gap)

\* C5: when no instrument reaches min_gap but some instrument produced a gap
\* value, scan_gap_up returns one record, the first scanned instrument among
\* those with the largest gap; /gap-up sets gap_test exactly on the records
\* whose gap is below min_gap, so on the fallback record and on no record
\* that passes the threshold; and the result is empty only when no
\* instrument produced a gap value.
C5_MaxGapFallback ==
    /\ (ScanReturned /\ Passing = {} /\ WithGap # {}) =>
          /\ Len(out.result) = 1
          /\ out.result[1].uid = FirstMaxGap
    /\ ScanReturned => ((out.result = <<>>) <=> (WithGap = {}))
    /\ (call = "read_gap_up" /\ out.status = "ok") =>
          /\ out.result.count = Len(out.result.results)
          /\ \A j \in 1..Len(out.result.results) :
                LET r == out.result.results[j]
                IN  /\ r.gap_test = RatLt(r.gap, min_gap)
                    /\ r.gap_test = (Passing = {})
                    /\ r.gap_test => r.uid = FirstMaxGap
          /\ Passing = {} /\ WithGap # {} => Len(out.result.results) = 1

\* C5 witness: two instruments share the largest gap, it is below min_gap,
\* and /gap-up has flagged the record it returns.
C5_Witness ==
    /\ call = "read_gap_up"
    /\ out.status = "ok"
    /\ Passing = {}
    /\ \E k \in WithGap : k # FirstMaxGap /\ RatEq(GapOf(k), GapOf(FirstMaxGap))
    /\ Len(out.result.results) = 1
    /\ out.result.results[1].gap_test

\* C6: the list scan_gap_up returns is ordered by gap, largest first, and
\* records with equal gaps stand in scan order.
C6_SortedStable ==
    ScanReturned =>
       \A j \in 1..(Len(out.result) - 1) :
          /\ RatLe(out.result[j + 1].gap, out.result[j].gap)
          /\ RatEq(out.result[j + 1].gap, out.result[j].gap) =>
                out.result[j].uid < out.result[j + 1].uid

\* C6 witness: three records, two with equal gaps, returned in an order
\* other than the scan order.
C6_Witness ==
    /\ ScanReturned
    /\ Len(out.result) = 3
    /\ \E j \in 1..2 : RatEq(out.result[j + 1].gap, out.result[j].gap)
    /\ \E j \in 1..2 : out.result[j].uid > out.result[j + 1].uid

----------------------------------------------------------------------------
(* Properties of the VWAP service *)

RECURSIVE SumTo(_, _)
SumTo(f, k) == IF k = 0 THEN 0 ELSE f[k] + SumTo(f, k - 1)

\* cumulative volume and cumulative close * volume up to candle k
CumVolume(k) == SumTo([j \in 1..Len(candles) |-> candles[j].volume], k)

CumTurnover(k) ==
    SumTo([j \in 1..Len(candles) |-> candles[j].close * candles[j].volume], k)

VwapReturned == call = "calc_vwap_levels" /\ out.status = "ok"

\* C7 as stated: whenever the cumulative volume is zero at some index of the
\* series, the VWAP service signals an error and returns no band.
C7_ZeroVolumeRejected ==
    (call = "calc_vwap_levels" /\ \E k \in 1..Len(candles) : CumVolume(k) = 0)
    => out.status = "raise"

PositiveVolume == \A k \in 1..Len(candles) : CumVolume(k) > 0

\* close[k] - runningVwap[k], in 1/Scale-ths
Deviation(k) == candles[k].close * Scale - ((CumTurnover(k) * Scale) \div CumVolume(k))

\* the sample variance (divisor n - 1) of the deviations
SampleVariance ==
    LET n == Len(candles)
        d == [k \in 1..n |-> Deviation(k)]
        mean == SumTo(d, n) \div n
    IN  SumTo([k \in 1..n |-> (d[k] - mean) * (d[k] - mean)], n) \div (n - 1)

FinalVwap == (CumTurnover(Len(candles)) * Scale) \div CumVolume(Len(candles))

\* the band around vwap: std is the root of the sample variance, support and
\* resistance lie std below and above vwap
BandAroundVwap(r) ==
    /\ ~r.std.nan /\ ~r.support.nan /\ ~r.resistance.nan
    /\ r.std.v * r.std.v <= SampleVariance
    /\ SampleVariance < (r.std.v + 1) * (r.std.v + 1)
    /\ r.support.v = r.vwap.v - r.std.v
    /\ r.resistance.v = r.vwap.v + r.std.v
    /\ r.support.v <= r.vwap.v
    /\ r.vwap.v <= r.resistance.v
    /\ r.support.v + r.resistance.v = 2 * r.vwap.v

\* C9 as stated: with positive cumulative volume throughout, vwap is the
\* final cumulative ratio (close[0] for a single candle) and support and
\* resistance lie one sample deviation below and above it, so that
\* support <= vwap <= resistance, whatever the length of the series.
C9_BandEveryLength ==
    (VwapReturned /\ PositiveVolume)
    => /\ out.result.vwap = Fl(FinalVwap)
       /\ Len(candles) = 1 => out.result.vwap = Fl(candles[1].close * Scale)
       /\ Len(candles) >= 2 => BandAroundVwap(out.result)
       /\ ~out.result.support.nan /\ ~out.result.resistance.nan
       /\ out.result.support.v <= out.result.vwap.v
       /\ out.result.vwap.v <= out.result.resistance.v

\* C9 amended: with positive cumulative volume throughout, vwap is the final
\* cumulative ratio; for two or more candles std is the sample deviation
\* (divisor n - 1) of close - runningVwap, support = vwap - std, resistance =
\* vwap + std, support <= vwap <= resistance and vwap is the midpoint; for a
\* single candle vwap = close[0] and std, support and resistance are NaN.
C9_BandFromTwoCandles ==
    (VwapReturned /\ PositiveVolume)
    => /\ out.result.vwap = Fl(FinalVwap)
       /\ Len(candles) >= 2 => BandAroundVwap(out.result)
       /\ Len(candles) = 1 =>
             /\ out.result.vwap = Fl(candles[1].close * Scale)
             /\ out.result.std.nan
             /\ out.result.support.nan
             /\ out.result.resistance.nan
       /\ saved = <<out.result>>

\* C9 witness: three candles, positive volumes, closes that differ, and a
\* band of non-zero width has been returned.
C9_Witness ==
    /\ VwapReturned
    /\ PositiveVolume
    /\ Len(candles) = 3
    /\ ~out.result.std.nan
    /\ out.result.std.v > 0
    /\ out.result.support.v < out.result.vwap.v

----------------------------------------------------------------------------
(* Properties of the series' order *)

StrictlyAscending(c) == \A k \in 1..(Len(c) - 1) : c[k].time < c[k + 1].time

\* C8 as stated: a series whose timestamps are not strictly ascending is
\* rejected with an error, or ignored (no pattern, no band), by every
\* detector and by the VWAP service.
C8_UnsortedRejected ==
    (call # "idle" /\ ~StrictlyAscending(candles))
    => \/ out.status = "raise"
       \/ call \in Detectors /\ ~out.result.triggered

----------------------------------------------------------------------------
(* Properties of the flat-breakout analyses (indices are the source's,
   from 0) *)

HighAt(k) == At(candles, k).high

LowAt(k) == At(candles, k).low

\* the running maximum of the highs before candle i, and how many of those
\* candles have it as their high
TopLevel(i) == SetMax({HighAt(k) : k \in 0..(i - 1)})

TopTouches(i) == Cardinality({k \in 0..(i - 1) : HighAt(k) = TopLevel(i)})

\* the candles that break a level touched at least twice
FlatTopBreaks ==
    {i \in 1..(Len(candles) - 1) : HighAt(i) > TopLevel(i) /\ TopTouches(i) >= 2}

FlatTopReturned == call = "flat_top" /\ candles # <<>>

\* C11: Flat-Top triggers at the smallest index i >= 1 whose high is strictly
\* above the running maximum M of the highs before it, M being the high of
\* at least two of those candles; then entry = M and the trigger time is
\* candle i's; with no such index the result is untriggered.
C11_FlatTopFirstBreak ==
    FlatTopReturned
    => /\ out.status = "ok"
       /\ out.result.triggered = (FlatTopBreaks # {})
       /\ FlatTopBreaks # {} =>
             LET i == SetMin(FlatTopBreaks)
             IN  /\ out.result.entry_price = Some(TopLevel(i))
                 /\ out.result.trigger_time = Some(At(candles, i).time)
                 /\ \A k \in 0..(i - 1) : HighAt(k) <= out.result.entry_price[1]

\* C11 witness: Flat-Top triggered after an earlier candle had made a new
\* high over a level touched only once.
C11_Witness ==
    /\ FlatTopReturned /\ out.status = "ok" /\ out.result.triggered
    /\ \E k \in 1..(SetMin(FlatTopBreaks) - 1) :
          HighAt(k) > TopLevel(k) /\ TopTouches(k) = 1

\* the last candle before i whose high is the level
TopLastTouch(i) == SetMax({k \in 0..(i - 1) : HighAt(k) = TopLevel(i)})

\* C12: when Flat-Top triggers at i with level M and t the last index before
\* i with high[t] = M, the stop is the minimum low over candles t+1..i-1 if
\* t < i-1 (the breakout candle's low left out) and low[t] if t = i-1.
C12_FlatTopStop ==
    (FlatTopReturned /\ out.status = "ok" /\ out.result.triggered)
    => LET i == SetMin(FlatTopBreaks)
           tt == TopLastTouch(i)
       IN  out.result.stop_price =
              Some(IF tt < i - 1
                   THEN SetMin({LowAt(k) : k \in (tt + 1)..(i - 1)})
                   ELSE LowAt(tt))

\* C12 witness: a triggered Flat-Top with candles between the last touch and
\* the breakout, the breakout candle's own low being below the stop.
C12_Witness ==
    /\ FlatTopReturned /\ out.status = "ok" /\ out.result.triggered
    /\ LET i == SetMin(FlatTopBreaks)
       IN  /\ TopLastTouch(i) < i - 1
           /\ LowAt(i) < out.result.stop_price[1]

\* the series with prices negated and each candle's high and low swapped
Mirror(c) ==
    [k \in DOMAIN c |->
        Candle(c[k].time, -c[k].open, -c[k].low, -c[k].high, -c[k].close, c[k].volume)]

\* a result with entry and stop negated
NegatedPrice(p) == IF p = None THEN None ELSE Some(-p[1])

Negated(o) ==
    IF o.status # "ok" THEN o
    ELSE Ok(PatternResult(o.result.triggered, NegatedPrice(o.result.entry_price),
                          NegatedPrice(o.result.stop_price), o.result.trigger_time))

BottomLevel(i) == SetMin({LowAt(k) : k \in 0..(i - 1)})

BottomLastTouch(i) == SetMax({k \in 0..(i - 1) : LowAt(k) = BottomLevel(i)})

FlatBottomBreaks ==
    {i \in 1..(Len(candles) - 1) :
        /\ LowAt(i) < BottomLevel(i)
        /\ Cardinality({k \in 0..(i - 1) : LowAt(k) = BottomLevel(i)}) >= 2}

\* C13: Flat-Bottom is the mirror of Flat-Top: its answer on a series is
\* Flat-Top's answer on the mirrored series with entry and stop negated; it
\* triggers at the first candle whose low is strictly below a running
\* minimum touched at least twice, entry = that level, stop = the maximum
\* high between the last touch and the breakdown candle.
C13_FlatBottomMirror ==
    call = "flat_bottom"
    => /\ out = Negated(analyze_flat_top(Mirror(candles)))
       /\ candles # <<>> =>
             /\ out.status = "ok"
             /\ out.result.triggered = (FlatBottomBreaks # {})
             /\ FlatBottomBreaks # {} =>
                   LET i == SetMin(FlatBottomBreaks)
                       tt == BottomLastTouch(i)
                   IN  /\ out.result.entry_price = Some(BottomLevel(i))
                       /\ out.result.trigger_time = Some(At(candles, i).time)
                       /\ out.result.stop_price =
                             Some(IF tt < i - 1
                                  THEN SetMax({HighAt(k) : k \in (tt + 1)..(i - 1)})
                                  ELSE HighAt(tt))

\* C13 witness: a triggered Flat-Bottom with candles between the last touch
\* of the support and the breakdown.
C13_Witness ==
    /\ call = "flat_bottom" /\ out.status = "ok" /\ out.result.triggered
    /\ BottomLastTouch(SetMin(FlatBottomBreaks)) < SetMin(FlatBottomBreaks) - 1

----------------------------------------------------------------------------
(* Properties of the First Pullback analysis *)

\* the running maximum of the highs before candle i
RunHigh(i) == SetMax({HighAt(k) : k \in 0..(i - 1)})

\* the candles that do not set a new high; the first is the pullback start
PullbackStarts == {i \in 1..(Len(candles) - 1) : HighAt(i) <= RunHigh(i)}

PullbackStart == SetMin(PullbackStarts)

\* the candles at or after the pullback start whose successor has a higher high
Resumptions ==
    IF PullbackStarts = {} THEN {}
    ELSE {j \in PullbackStart..(Len(candles) - 2) : HighAt(j + 1) > HighAt(j)}

Resumption == SetMin(Resumptions)

PullbackPeak == RunHigh(PullbackStart)

PullbackLowest == SetMin({LowAt(k) : k \in PullbackStart..Resumption})

\* C17: First Pullback's peak is the running maximum grown from candle 0
\* while each next high exceeds it; the pullback starts at the first candle p
\* that sets no new high; the trigger index is the smallest j >= p with
\* high[j+1] > high[j]; a triggered result has entry = high[j], stop = the
\* minimum low over p..j, target = the peak and the time of candle j+1; with
\* no pullback start or no such j the result is untriggered.
C17_PullbackLevels ==
    (call = "first_pullback" /\ out.status = "ok")
    => /\ Resumptions = {} => ~out.result.triggered
       /\ out.result.triggered =>
             /\ out.result.entry_price = Some(HighAt(Resumption))
             /\ out.result.stop_price = Some(PullbackLowest)
             /\ out.result.target_price = Some(PullbackPeak)
             /\ out.result.trigger_time = Some(At(candles, Resumption + 1).time)

\* C17 witness: a triggered First Pullback whose resumption came after the
\* pullback start candle.
C17_Witness ==
    /\ call = "first_pullback" /\ out.status = "ok" /\ out.result.triggered
    /\ Resumption > PullbackStart

FirstOpen == At(candles, 0).open

\* (a) peak / open - 1 >= 0.03
GateMove == 100 * (PullbackPeak - FirstOpen) >= 3 * FirstOpen

\* the largest volume among candle 0 and the candles that set new highs
ImpulseVolume == SetMax({At(candles, k).volume : k \in 0..(PullbackStart - 1)})

\* (b) the largest pullback volume is strictly below the impulse volume
GateVolume ==
    SetMax({At(candles, k).volume : k \in PullbackStart..Resumption}) < ImpulseVolume

\* (c) pullback low >= open + 0.5 x (peak - open)
GateDepth == 2 * PullbackLowest >= 2 * FirstOpen + (PullbackPeak - FirstOpen)

\* C18: for a positive first open, First Pullback is triggered exactly when a
\* trigger index was found and the three gates (a), (b), (c) hold; when a
\* gate fails the result is untriggered with every optional field absent.
C18_PullbackGates ==
    (call = "first_pullback" /\ candles # <<>> /\ FirstOpen > 0)
    => /\ out.status = "ok"
       /\ out.result.triggered =
             (Resumptions # {} /\ GateMove /\ GateVolume /\ GateDepth)
       /\ ~out.result.triggered => Absent(out.result)

\* C18 witness: a trigger index exists and only the depth gate fails.
C18_Witness ==
    /\ call = "first_pullback" /\ candles # <<>> /\ FirstOpen > 0
    /\ Resumptions # {} /\ GateMove /\ GateVolume /\ ~GateDepth
    /\ out.status = "ok" /\ ~out.result.triggered

----------------------------------------------------------------------------
(* Properties of the Bull Flag and ABCD analyses *)

VolumeAt(k) == At(candles, k).volume

\* a local peak at i followed by two lower highs
IsPeak(i) ==
    /\ 2 <= i /\ i <= Len(candles) - 3
    /\ HighAt(i) > HighAt(i - 1)
    /\ HighAt(i) > HighAt(i + 1)
    /\ HighAt(i + 2) < HighAt(i + 1)

\* the candles after i with a high above the peak's; the first is the breakout
Breakouts(i) == {j \in (i + 1)..(Len(candles) - 1) : HighAt(j) > HighAt(i)}

BreakoutOf(i) == SetMin(Breakouts(i))

\* the consolidation candles i+1..j-1
Consolidation(i) == (i + 1)..(BreakoutOf(i) - 1)

ConsolidationLow(i) == SetMin({LowAt(k) : k \in Consolidation(i)})

\* the volumes of candles i+1..j-1 added up
ConsolidationVolume(i) == CumVolume(BreakoutOf(i)) - CumVolume(i + 1)

\* volume[j] >= 2 x the average consolidation volume, a zero average counting as 1
BreakoutVolumeOk(i) ==
    IF ConsolidationVolume(i) = 0 THEN VolumeAt(BreakoutOf(i)) >= 2
    ELSE VolumeAt(BreakoutOf(i)) * Cardinality(Consolidation(i))
            >= 2 * ConsolidationVolume(i)

FlagQualifies(i) == IsPeak(i) /\ Breakouts(i) # {} /\ BreakoutVolumeOk(i)

FlagPeaks == {i \in 0..(Len(candles) - 1) : FlagQualifies(i)}

\* C14: Bull Flag is triggered exactly when some index i in 2..n-3 is a
\* local peak followed by two lower highs, has a breakout candle after it
\* (the first with a high above the peak's) and the breakout's volume is at
\* least twice the average volume of the candles between, a zero average
\* counting as 1.
C14_BullFlagTriggeredIff ==
    call = "bull_flag"
    => out.status = "ok" /\ out.result.triggered = (FlagPeaks # {})

\* C14 witness: Bull Flag answered untriggered on a series with a peak and a
\* breakout whose volume is below the bound.
C14_Witness ==
    /\ call = "bull_flag" /\ out.status = "ok" /\ ~out.result.triggered
    /\ \E i \in 0..(Len(candles) - 1) :
          IsPeak(i) /\ Breakouts(i) # {} /\ ~BreakoutVolumeOk(i)

\* the first qualifying peak
FlagPeak == SetMin(FlagPeaks)

\* the minimum low over the w candles that end with candle i (fewer when the
\* series starts later)
LookbackLow(i, w) == SetMin({LowAt(k) : k \in Max2(0, i + 1 - w)..i})

BullFlagTriggered == call = "bull_flag" /\ out.status = "ok" /\ out.result.triggered

\* C15 as stated: a triggered Bull Flag with peak i and breakout j has
\* entry = high[i], stop = the lowest low over i+1..j-1, the time of candle
\* j, and target = entry + (entry - L) with L the minimum low over the up to
\* 10 candles that end with the peak candle.
C15_BullFlagLevelsTenCandles ==
    BullFlagTriggered
    => /\ FlagPeaks # {}
       /\ out.result.entry_price = Some(HighAt(FlagPeak))
       /\ out.result.stop_price = Some(ConsolidationLow(FlagPeak))
       /\ out.result.trigger_time = Some(At(candles, BreakoutOf(FlagPeak)).time)
       /\ out.result.target_price =
             Some(2 * HighAt(FlagPeak) - LookbackLow(FlagPeak, LookbackCandles))

\* C15 amended: the same levels, L being the minimum low over the peak
\* candle and the up to 10 candles before it (up to 11 candles).
C15_BullFlagLevels ==
    BullFlagTriggered
    => /\ FlagPeaks # {}
       /\ out.result.entry_price = Some(HighAt(FlagPeak))
       /\ out.result.stop_price = Some(ConsolidationLow(FlagPeak))
       /\ out.result.trigger_time = Some(At(candles, BreakoutOf(FlagPeak)).time)
       /\ out.result.target_price =
             Some(2 * HighAt(FlagPeak) - LookbackLow(FlagPeak, LookbackCandles + 1))

\* C15 witness: a triggered Bull Flag whose lowest low of the run-up is the
\* tenth candle before the peak.
C15_Witness ==
    /\ BullFlagTriggered
    /\ FlagPeak >= LookbackCandles
    /\ LowAt(FlagPeak - LookbackCandles) < LookbackLow(FlagPeak, LookbackCandles)

\* the impulse low A and the largest volume of the lookback window: the
\* peak candle and the up to 10 candles before it
ImpulseLow(i) == LookbackLow(i, LookbackCandles + 1)

WindowVolume(i) == SetMax({VolumeAt(k) : k \in Max2(0, i - LookbackCandles)..i})

PullbackVolume(i) == SetMax({VolumeAt(k) : k \in Consolidation(i)})

\* 0.2 <= (B - C) / (B - A) <= 0.8
RetraceInRange(i) ==
    LET retrace == HighAt(i) - ConsolidationLow(i)
        impulse == HighAt(i) - ImpulseLow(i)
    IN  10 * retrace >= 2 * impulse /\ 10 * retrace <= 8 * impulse

AbcdQualifies(i) ==
    /\ IsPeak(i) /\ Breakouts(i) # {}
    /\ ConsolidationLow(i) > ImpulseLow(i)
    /\ RetraceInRange(i)
    /\ PullbackVolume(i) < WindowVolume(i)
    /\ BreakoutVolumeOk(i)

AbcdPeaks == {i \in 0..(Len(candles) - 1) : AbcdQualifies(i)}

AbcdPeak == SetMin(AbcdPeaks)

AbcdTriggered == call = "abcd" /\ out.status = "ok" /\ out.result.triggered

\* C16: Bull Flag and ABCD report the first qualifying occurrence: the
\* result is triggered exactly when some peak passes all the detector's
\* checks, and the reported entry and trigger time are those of the smallest
\* such peak, whatever later peaks qualify.
C16_FirstQualifyingWins ==
    /\ call = "bull_flag" =>
          /\ out.status = "ok" /\ out.result.triggered = (FlagPeaks # {})
          /\ out.result.triggered =>
                /\ out.result.entry_price = Some(HighAt(FlagPeak))
                /\ out.result.trigger_time = Some(At(candles, BreakoutOf(FlagPeak)).time)
    /\ call = "abcd" =>
          /\ out.status = "ok" /\ out.result.triggered = (AbcdPeaks # {})
          /\ out.result.triggered =>
                /\ out.result.entry_price = Some(HighAt(AbcdPeak))
                /\ out.result.trigger_time = Some(At(candles, BreakoutOf(AbcdPeak)).time)

\* C16 witness: Bull Flag answered on a session with two qualifying peaks,
\* the later one with the greater flagpole and the greater breakout volume.
C16_Witness ==
    /\ BullFlagTriggered
    /\ \E i \in FlagPeaks :
          /\ i > FlagPeak
          /\ HighAt(i) - ImpulseLow(i) > HighAt(FlagPeak) - ImpulseLow(FlagPeak)
          /\ VolumeAt(BreakoutOf(i)) > VolumeAt(BreakoutOf(FlagPeak))

C20_AbcdLevelsTenCandles ==
    AbcdTriggered
    => /\ AbcdPeaks # {}
       /\ out.result.entry_price = Some(HighAt(AbcdPeak))
       /\ out.result.stop_price = Some(ConsolidationLow(AbcdPeak))
       /\ out.result.trigger_time = Some(At(candles, BreakoutOf(AbcdPeak)).time)
       /\ out.result.target_price =
             Some(2 * HighAt(AbcdPeak) - LookbackLow(AbcdPeak, LookbackCandles))

\* C20 amended: the same levels, A being the minimum low over the B candle
\* and the up to 10 candles before it (up to 11 candles).
C20_AbcdLevels ==
    AbcdTriggered
    => /\ AbcdPeaks # {}
       /\ out.result.entry_price = Some(HighAt(AbcdPeak))
       /\ out.result.stop_price = Some(ConsolidationLow(AbcdPeak))
       /\ out.result.trigger_time = Some(At(candles, BreakoutOf(AbcdPeak)).time)
       /\ out.result.target_price =
             Some(2 * HighAt(AbcdPeak) - ImpulseLow(AbcdPeak))

\* C20 witness: a triggered ABCD whose A is the low of the tenth candle
\* before B, lower than every low from the ninth on.
C20_Witness ==
    /\ AbcdTriggered
    /\ AbcdPeak >= LookbackCandles
    /\ LowAt(AbcdPeak - LookbackCandles) < LookbackLow(AbcdPeak, LookbackCandles)

----------------------------------------------------------------------------
(* Further properties of the gap scanner *)

ReturnedUids == {out.result[j].uid : j \in 1..Len(out.result)}

\* C21: for one positive previous close and two opens o1 < o2, the gap
\* scan_gap_up computes for o1 is strictly below the gap for o2, and an
\* instrument that is returned stays returned when its open is raised: the
\* instrument with the higher open is returned too.
C21_GapMonotonicInOpen ==
    ScanReturned
    => /\ \A a, b \in 1..Len(out.result) :
             (out.result[a].prev_close = out.result[b].prev_close
              /\ out.result[a].open < out.result[b].open)
             => RatLt(out.result[a].gap, out.result[b].gap)
       /\ \A k1, k2 \in WithGap :
             (prev_close_of(universe[k1]) = prev_close_of(universe[k2])
              /\ today_open_of(universe[k1]) < today_open_of(universe[k2])
              /\ k1 \in ReturnedUids)
             => k2 \in ReturnedUids

\* C21 witness: a scan returned two instruments with the same previous close
\* and different opens.
C21_Witness ==
    /\ ScanReturned
    /\ \E a, b \in 1..Len(out.result) :
          /\ out.result[a].prev_close = out.result[b].prev_close
          /\ out.result[a].open < out.result[b].open

----------------------------------------------------------------------------
(* Further properties of the detectors *)

\* the answers already given by the detector now answering, for the series
\* it has now been given and for other series
ServedSame == {r \in served : r.detector = call /\ r.series = candles}

ServedOther == {r \in served : r.detector = call /\ r.series # candles}

AbcdCandidates == {i \in 0..(Len(candles) - 1) : IsPeak(i) /\ Breakouts(i) # {}}

\* C and A as abcd.py computes them for the peak i
LowestLowOf(i) ==
    consolidation_scan(highs_of(candles), lows_of(candles), HighAt(i), i + 1,
                       HighAt(i)).lowest_low

APriceOf(i) == window_low(lows_of(candles), i)

\* C23: every triggered ABCD result has A < stop < entry < target and
\* target - entry = entry - A, A being the impulse low of the reported peak;
\* and for every peak examined, once C is strictly above A the impulse
\* height B - A is positive, so that check rejects nothing.
C23_AbcdOrdered ==
    /\ AbcdTriggered =>
          /\ AbcdPeaks # {}
          /\ LET A == ImpulseLow(AbcdPeak)
                 stop == out.result.stop_price[1]
                 entry == out.result.entry_price[1]
                 target == out.result.target_price[1]
             IN  /\ A < stop /\ stop < entry /\ entry < target
                 /\ target - entry = entry - A
    /\ call = "abcd" =>
          \A i \in AbcdCandidates :
              LowestLowOf(i) > APriceOf(i) => HighAt(i) - APriceOf(i) > 0

\* C23 witness: a triggered ABCD whose first examined peak was turned away
\* and whose impulse is more than twice its retracement.
C23_Witness ==
    /\ AbcdTriggered
    /\ \E i \in AbcdCandidates : i < AbcdPeak
    /\ out.result.target_price[1] - out.result.entry_price[1]
          > 2 * (out.result.entry_price[1] - out.result.stop_price[1])

\* low <= high in every candle
LowBelowHigh == \A k \in 1..Len(candles) : candles[k].low <= candles[k].high

Triggered == call \in Detectors /\ out.status = "ok" /\ out.result.triggered

\* C24: on a series with low <= high in every candle, a triggered result
\* has stop <= entry for Gap-and-Go, Flat Top, Bull Flag, First Pullback and
\* ABCD, entry <= target for Bull Flag, First Pullback and ABCD, and
\* stop >= entry for Flat Bottom.
C24_LevelsOrdered ==
    (LowBelowHigh /\ Triggered)
    => /\ call \in {"gap_and_go", "flat_top", "bull_flag", "first_pullback", "abcd"}
             => out.result.stop_price[1] <= out.result.entry_price[1]
       /\ call \in {"bull_flag", "first_pullback", "abcd"}
             => out.result.entry_price[1] <= out.result.target_price[1]
       /\ call = "flat_bottom"
             => out.result.stop_price[1] >= out.result.entry_price[1]

\* C24 witness: a triggered Flat Bottom with its stop strictly above its
\* entry, on a series with low <= high throughout.
C24_Witness ==
    /\ LowBelowHigh /\ Triggered
    /\ call = "flat_bottom"
    /\ out.result.stop_price[1] > out.result.entry_price[1]

\* the breakout index the consolidation scan stops at for the peak i
ScanStopOf(i) ==
    consolidation_scan(highs_of(candles), lows_of(candles), HighAt(i), i + 1,
                       HighAt(i)).j

\* C25: in Bull Flag and ABCD, whenever a breakout candle j is found for an
\* examined peak i, j >= i + 3: the consolidation i+1..j-1 holds at least
\* two candles, its volumes are volumes[i+1..j-1] and never the one-candle
\* substitute; a triggered result reports such a peak and breakout.
C25_ConsolidationTwoCandles ==
    /\ call \in {"bull_flag", "abcd"} =>
          \A i \in AbcdCandidates :
              LET j == ScanStopOf(i)
                  cons_volumes == cons_volumes_of(volumes_of(candles), i, j)
              IN  /\ j = BreakoutOf(i)
                  /\ j >= i + 3
                  /\ cons_volumes = Slice(volumes_of(candles), i + 1, j)
                  /\ Len(cons_volumes) >= 2
    /\ (BullFlagTriggered \/ AbcdTriggered) =>
          \E i \in AbcdCandidates :
              /\ out.result.entry_price = Some(HighAt(i))
              /\ out.result.trigger_time = Some(At(candles, BreakoutOf(i)).time)
              /\ BreakoutOf(i) >= i + 3

\* C25 witness: a triggered Bull Flag whose breakout is the third candle
\* after the peak, the consolidation being exactly two candles.
C25_Witness ==
    /\ BullFlagTriggered
    /\ BreakoutOf(FlagPeak) = FlagPeak + 3

\* what Bull Flag answers on the series ABCD was given
BullFlagOnSame == analyze_bull_flag(candles)

\* C26: ABCD refines Bull Flag: whenever ABCD triggers, Bull Flag triggers
\* on the same series, and the peak Bull Flag reports is at or before
\* ABCD's B.
C26_AbcdRefinesBullFlag ==
    AbcdTriggered
    => /\ BullFlagOnSame.status = "ok"
       /\ BullFlagOnSame.result.triggered
       /\ AbcdPeaks # {} /\ FlagPeaks # {}
       /\ out.result.entry_price = Some(HighAt(AbcdPeak))
       /\ BullFlagOnSame.result.entry_price = Some(HighAt(FlagPeak))
       /\ BullFlagOnSame.result.trigger_time
             = Some(At(candles, BreakoutOf(FlagPeak)).time)
       /\ FlagPeak <= AbcdPeak

\* C26 witness: a triggered ABCD on a session whose Bull Flag peak is
\* strictly before B.
C26_Witness ==
    /\ AbcdTriggered
    /\ BullFlagOnSame.result.triggered
    /\ FlagPeak < AbcdPeak

----------------------------------------------------------------------------
(* Further properties of First Pullback *)

\* no price and no volume of the series is negative
NonNegative ==
    \A k \in 1..Len(candles) :
        /\ candles[k].open >= 0 /\ candles[k].high >= 0
        /\ candles[k].low >= 0 /\ candles[k].close >= 0
        /\ candles[k].volume >= 0

\* C27: on every series whose prices and volumes are non-negative, First
\* Pullback returns a result and never raises.
C27_FirstPullbackNeverRaises ==
    (call = "first_pullback" /\ NonNegative) => out.status = "ok"

\* C27 witness: First Pullback raised ZeroDivisionError on a non-negative
\* series whose first candle opens at 0 and whose pullback was resumed.
C27_Witness ==
    /\ call = "first_pullback" /\ NonNegative
    /\ out = Raise("ZeroDivisionError")
    /\ candles[1].open = 0
    /\ Resumptions # {}

----------------------------------------------------------------------------
(* Further properties of the gap scanner: the requests *)

Days == {"prev", "today"}

\* the positions in the log of the requests made for instrument k's day
Attempts(k, day) ==
    {p \in DOMAIN market.log :
        /\ market.log[p].what = "request"
        /\ market.log[p].uid = k /\ market.log[p].day = day}

\* a first attempt turned away for the rate limit
Exhausted(p) ==
    /\ market.log[p].what = "request"
    /\ market.log[p].attempt = 1
    /\ market.log[p].outcome = "RESOURCE_EXHAUSTED"

\* a request after whose failure the instrument is given up
GivenUp(p) ==
    /\ market.log[p].what = "request"
    /\ market.log[p].outcome # "ok"
    /\ ~Exhausted(p)

\* the request for instrument k's day was answered in the end
Answered(k, day) == \E p \in Attempts(k, day) : market.log[p].outcome = "ok"

\* instrument k went through the whole loop body and met the threshold
Collects(k) ==
    /\ k \in WithGap
    /\ Answered(k, "prev") /\ Answered(k, "today")
    /\ RatLe(min_gap, GapOf(k))

\* the records of the first k instruments, in scan order
RECURSIVE Collected(_)
Collected(k) ==
    IF k = 0 THEN <<>>
    ELSE IF Collects(k)
    THEN Append(Collected(k - 1),
                GapRecord(k, prev_close_of(universe[k]), today_open_of(universe[k])))
    ELSE Collected(k - 1)

\* C28: each daily-candle request is attempted at most twice; a first
\* attempt failing with RESOURCE_EXHAUSTED is followed by one 60-second
\* sleep and one retry, and nothing else is; a failed retry or any other
\* RequestError ends the requests for that instrument; the records
\* collected are those of every instrument scanned so far whose two
\* requests were answered, and a returned scan has requested every share.
C28_RetryOnce ==
    LET log == market.log
    IN  /\ \A k \in 1..Len(universe) : \A day \in Days :
              Cardinality(Attempts(k, day)) <= 2
        /\ \A p \in DOMAIN log :
              /\ Exhausted(p) =>
                    /\ p + 1 <= Len(log)
                    /\ log[p + 1] = Slept(log[p].uid, log[p].day, 60)
                    /\ p + 2 <= Len(log) =>
                          /\ log[p + 2].what = "request"
                          /\ log[p + 2].attempt = 2
                          /\ log[p + 2].uid = log[p].uid
                          /\ log[p + 2].day = log[p].day
                    /\ call = "scan_gap_up" => p + 2 <= Len(log)
              /\ log[p].what = "sleep" => p >= 2 /\ Exhausted(p - 1)
              /\ (log[p].what = "request" /\ log[p].attempt = 2) =>
                    p >= 3 /\ log[p - 1].what = "sleep" /\ Exhausted(p - 2)
              /\ GivenUp(p) =>
                    /\ \A q \in DOMAIN log : q > p => log[q].uid > log[p].uid
                    /\ \A j \in 1..Len(scan.result) : scan.result[j].uid # log[p].uid
                    /\ scan.i >= log[p].uid
        /\ scan.result = Collected(scan.i)
        /\ call = "scan_gap_up" =>
              /\ scan.i = Len(universe)
              /\ \A k \in 1..Len(universe) :
                    universe[k].instrument_type = "share" => Attempts(k, "prev") # {}

\* C28 witness: the scan returned the record of the first instrument after
\* giving up the second, whose retry failed.
C28_Witness ==
    /\ ScanReturned
    /\ \E p \in DOMAIN market.log :
          /\ GivenUp(p) /\ market.log[p].attempt = 2 /\ market.log[p].uid = 2
    /\ \E j \in 1..Len(out.result) : out.result[j].uid = 1

----------------------------------------------------------------------------
(* Properties of the orchestrator *)

\* the ticker and the service of the q-th request of a run that leaves none
\* out: six requests for each ticker of gaps, in the order of Services
TickerOfRequest(q) == run.gaps[((q - 1) \div Len(Services)) + 1]

ServiceOfRequest(q) == Services[((q - 1) % Len(Services)) + 1]

\* the rows that the requests answered so far put in results_rows
RECURSIVE RowsOfAnswered(_)
RowsOfAnswered(log) ==
    IF log = <<>> THEN <<>>
    ELSE LET last == log[Len(log)]
             labels == Labels(last.service)
         IN  RowsOfAnswered(SubSeq(log, 1, Len(log) - 1))
                \o (IF last.ok
                    THEN [k \in 1..Len(labels) |->
                             [ticker |-> last.ticker, strategy |-> labels[k]]]
                    ELSE <<>>)

\* a row of results_rows as it stands in the report, its date left out
Undated(rows) ==
    [k \in 1..Len(rows) |-> [ticker |-> rows[k].ticker, strategy |-> rows[k].strategy]]

NotVwap(r) == r.strategy # "VWAP Levels"

\* C30: for each gapping ticker the six services are queried in the order
\* VWAP, Gap&Go, FlatBreakout, BullFlag, FirstPullback, ABCD; whatever
\* requests failed, the q-th request made is the q-th of that order, the
\* loop ends only after all of them, and results_rows holds the rows of
\* exactly the requests that succeeded, which are the rows the report step
\* writes.
C30_FailuresDoNotStopQueries ==
    /\ \A q \in 1..Len(run.queried) :
          /\ q <= Len(Services) * Len(run.gaps)
          /\ run.queried[q].ticker = TickerOfRequest(q)
          /\ run.queried[q].service = ServiceOfRequest(q)
    /\ run.pc = "query" =>
          /\ run.t <= Len(run.gaps)
          /\ Len(run.queried) = Len(Services) * (run.t - 1) + (run.s - 1)
    /\ run.pc = "report" => Len(run.queried) = Len(Services) * Len(run.gaps)
    /\ run.results_rows = RowsOfAnswered(run.queried)
    /\ run.logged = "updated" =>
          /\ Len(run.queried) = Len(Services) * Len(run.gaps)
          /\ report # None
          /\ LET written == SelectSeq(RowsOfAnswered(run.queried), NotVwap)
             IN  /\ Len(report[1].rows) >= Len(written)
                 /\ SubSeq(Undated(report[1].rows), 1, Len(written)) = written

\* C30 witness: a run over two tickers wrote its report after the VWAP
\* request of the first ticker failed, a later request for the first ticker
\* succeeded and a request for the second ticker succeeded.
C30_Witness ==
    /\ run.logged = "updated"
    /\ Len(run.gaps) = 2
    /\ ~run.queried[1].ok
    /\ \E q \in 2..Len(Services) : run.queried[q].ok
    /\ \E q \in (Len(Services) + 1)..Len(run.queried) : run.queried[q].ok
    /\ \E q \in (Len(Services) + 1)..Len(run.queried) : ~run.queried[q].ok

\* the report exists and its first data row is dated today
HasTodaysRows ==
    /\ report # None
    /\ Len(report[1].rows) >= 1
    /\ report[1].rows[1].date = today

\* the rows of this run, dated today, as the report step forms them
TodaysRows ==
    LET kept == SelectSeq(run.results_rows, NotVwap)
    IN  [k \in 1..Len(kept) |->
            [date |-> today, ticker |-> kept[k].ticker, strategy |-> kept[k].strategy]]

StoredRows == IF report = None THEN <<>> ELSE report[1].rows

\* the report step of run() is taken
ReportStep == run.pc = "report" /\ run'.pc = "idle"

\* the step's effect on the file; no other step of run() touches it (a run
\* the scanner gives no ticker to returns before the report step)
ReportFrame ==
    /\ (ReportStep /\ HasTodaysRows) => report' = report
    /\ (ReportStep /\ ~HasTodaysRows) =>
          /\ report' # None
          /\ report'[1].header = Header
          /\ report'[1].rows = TodaysRows \o StoredRows
    /\ (HasTodaysRows /\ today' = today) => report' = report
    /\ ~ReportStep => report' = report

\* no date, ticker and strategy stands in the report twice
NoRowTwice ==
    \A p, q \in 1..Len(StoredRows) : StoredRows[p] = StoredRows[q] => p = q

====
